---------------------------- MODULE Spec2Model ----------------------------
(***************************************************************************)
(* Emotion Intelligence Engine of edu-guardian: the text analyzer, the     *)
(* trajectory predictor, the pattern signature / similarity / clustering   *)
(* service and the batch processor, as state machines.                     *)
(*                                                                         *)
(* Python floats are IEEE-754 binary64 values.  They are modelled exactly: *)
(* a float is [s, e, m] with value (-1)^s * m * 2^e, m a 53-bit natural    *)
(* kept as a little-endian sequence of 15-bit limbs, and every operation   *)
(* computes the exact result and rounds it once, to nearest, ties to even. *)
(***************************************************************************)
EXTENDS Integers, Sequences, FiniteSets, TLC

(***************************************************************************)
(* Naturals of arbitrary size (limb sequences without high zero limbs).    *)
(* A value computed once is handed on as an operator argument.             *)
(***************************************************************************)
LimbBase == 2^15

HeadOr0(a) == IF a = <<>> THEN 0 ELSE Head(a)

TailOrEmpty(a) == IF a = <<>> THEN <<>> ELSE Tail(a)

RECURSIVE BTrim(_)
BTrim(a) ==
    IF a = <<>> THEN <<>>
    ELSE IF a[Len(a)] = 0 THEN BTrim(SubSeq(a, 1, Len(a) - 1))
    ELSE a

RECURSIVE BFromInt(_)
BFromInt(n) ==
    IF n = 0 THEN <<>> ELSE <<n % LimbBase>> \o BFromInt(n \div LimbBase)

RECURSIVE BToInt(_)
BToInt(a) ==
    IF a = <<>> THEN 0 ELSE Head(a) + LimbBase * BToInt(Tail(a))

RECURSIVE BAddC(_, _, _)
\* a + b + c for a carry c
BAddC(a, b, c) ==
    IF a = <<>> /\ b = <<>> THEN (IF c = 0 THEN <<>> ELSE <<c>>)
    ELSE <<(HeadOr0(a) + HeadOr0(b) + c) % LimbBase>> \o
         BAddC(TailOrEmpty(a), TailOrEmpty(b),
               (HeadOr0(a) + HeadOr0(b) + c) \div LimbBase)

BAdd(a, b) == BAddC(a, b, 0)

RECURSIVE BSubB(_, _, _)
\* a - b - c for a borrow c, high zero limbs kept
BSubB(a, b, c) ==
    IF a = <<>> THEN <<>>
    ELSE <<(Head(a) - HeadOr0(b) - c + LimbBase) % LimbBase>> \o
         BSubB(Tail(a), TailOrEmpty(b),
               IF Head(a) - HeadOr0(b) - c < 0 THEN 1 ELSE 0)

\* a - b for a >= b
BSub(a, b) == BTrim(BSubB(a, b, 0))

RECURSIVE BCmpAt(_, _, _)
BCmpAt(a, b, i) ==
    IF i = 0 THEN 0
    ELSE IF a[i] < b[i] THEN -1
    ELSE IF a[i] > b[i] THEN 1
    ELSE BCmpAt(a, b, i - 1)

\* -1, 0, 1 as a < b, a = b, a > b
BCmp(a, b) ==
    IF Len(a) < Len(b) THEN -1
    ELSE IF Len(a) > Len(b) THEN 1
    ELSE BCmpAt(a, b, Len(a))

RECURSIVE BMulSmall(_, _, _)
\* a * k + c for 0 <= k <= LimbBase, 0 <= c < LimbBase (a * 0 keeps a's
\* length)
BMulSmall(a, k, c) ==
    IF a = <<>> THEN (IF c = 0 THEN <<>> ELSE <<c>>)
    ELSE <<(Head(a) * k + c) % LimbBase>> \o
         BMulSmall(Tail(a), k, (Head(a) * k + c) \div LimbBase)

\* h * LimbBase
BShiftLimb(h) == IF h = <<>> THEN <<>> ELSE <<0>> \o h

RECURSIVE BMul(_, _)
BMul(a, b) ==
    IF a = <<>> \/ b = <<>> THEN <<>>
    ELSE BAdd(BMulSmall(a, Head(b), 0), BShiftLimb(BMul(a, Tail(b))))

\* a * 2^n
BShl(a, n) ==
    IF a = <<>> THEN <<>>
    ELSE [i \in 1..(n \div 15) |-> 0] \o BMulSmall(a, 2^(n % 15), 0)

RECURSIVE BDivSmallAt(_, _, _, _)
\* the limbs i..1 of a \div k, r the remainder carried in from the limbs
\* above i
BDivSmallAt(a, k, i, r) ==
    IF i = 0 THEN <<>>
    ELSE BDivSmallAt(a, k, i - 1, (r * LimbBase + a[i]) % k) \o
         <<(r * LimbBase + a[i]) \div k>>

BDivSmall(a, k) == BTrim(BDivSmallAt(a, k, Len(a), 0))

\* a \div 2^n
BShr(a, n) ==
    IF n \div 15 >= Len(a) THEN <<>>
    ELSE BDivSmall(SubSeq(a, n \div 15 + 1, Len(a)), 2^(n % 15))

RECURSIVE SmallBitLen(_)
SmallBitLen(n) == IF n = 0 THEN 0 ELSE 1 + SmallBitLen(n \div 2)

BBitLen(a) ==
    IF a = <<>> THEN 0 ELSE 15 * (Len(a) - 1) + SmallBitLen(a[Len(a)])

\* bit n of a
BBitAt(a, n) ==
    IF n \div 15 + 1 > Len(a) THEN 0
    ELSE (a[n \div 15 + 1] \div 2^(n % 15)) % 2

\* 2^(sh - 1) - 1 + lsb for sh >= 1: what is added to a before the low sh
\* bits are cut off, to round to nearest with ties to even
BRoundBias(sh, lsb) ==
    IF lsb = 1
    THEN [i \in 1..((sh - 1) \div 15) |-> 0] \o <<2^((sh - 1) % 15)>>
    ELSE [i \in 1..((sh - 1) \div 15) |-> LimbBase - 1] \o
         (IF (sh - 1) % 15 = 0 THEN <<>> ELSE <<2^((sh - 1) % 15) - 1>>)

\* a / 2^sh rounded to nearest, ties to even, for sh >= 1
BShrRound(a, sh) == BShr(BAdd(a, BRoundBias(sh, BBitAt(a, sh))), sh)

RECURSIVE BDigit(_, _, _, _)
\* the largest k with k * d <= r, given lo * d <= r < hi * d
BDigit(r, d, lo, hi) ==
    IF hi - lo = 1 THEN lo
    ELSE IF BCmp(BMulSmall(d, (lo + hi) \div 2, 0), r) <= 0
    THEN BDigit(r, d, (lo + hi) \div 2, hi)
    ELSE BDigit(r, d, lo, (lo + hi) \div 2)

BDivPut(rest, k) == <<rest[1] \o <<k>>, rest[2]>>

RECURSIVE BDivAt(_, _, _, _)
BDivNext(n, d, i, r2, k) ==
    BDivPut(BDivAt(n, d, i - 1,
                   IF k = 0 THEN r2 ELSE BSub(r2, BMulSmall(d, k, 0))), k)

BDivDigit(n, d, i, r2) == BDivNext(n, d, i, r2, BDigit(r2, d, 0, LimbBase))

\* long division by limbs: limbs i..1 of n still to bring down, r the
\* remainder so far; <<quotient limbs, remainder>>
BDivAt(n, d, i, r) ==
    IF i = 0 THEN <<<<>>, r>>
    ELSE BDivDigit(n, d, i, BTrim(<<n[i]>> \o r))

BWithRemainder(n, k, q) == <<q, BSub(n, BMulSmall(q, k, 0))>>

BTrimQuotient(qr) == <<BTrim(qr[1]), qr[2]>>

\* <<n \div d, n % d>> for d # 0; a divisor of one limb is divided by
\* directly
BDivMod(n, d) ==
    IF Len(d) = 1 THEN BWithRemainder(n, d[1], BDivSmall(n, d[1]))
    ELSE BTrimQuotient(BDivAt(n, d, Len(n), <<>>))

RECURSIVE BLowZeros(_)
\* the number of zero limbs at the low end of a # <<>>
BLowZeros(a) == IF Head(a) # 0 THEN 0 ELSE 1 + BLowZeros(Tail(a))

(***************************************************************************)
(* binary64: [s, e, m] is (-1)^s * m * 2^e with m of 53 bits, or zero.     *)
(* Overflow, subnormals, NaN and -0.0 do not arise from the magnitudes the *)
(* program computes with and are not represented.                          *)
(***************************************************************************)
FZero == [s |-> 0, e |-> 0, m |-> <<>>]

\* a rounded mantissa q of 53 bits, or 2^53 after a carry
FPack(s, q, E) ==
    IF Len(q) = 4 /\ q[4] >= 256
    THEN [s |-> s, e |-> E + 1, m |-> <<0, 0, 0, 128>>]
    ELSE [s |-> s, e |-> E, m |-> q]

FRoundLen(s, M, E, L) ==
    IF L <= 53 THEN [s |-> s, e |-> E - (53 - L), m |-> BShl(M, 53 - L)]
    ELSE FPack(s, BShrRound(M, L - 53), E + (L - 53))

\* the float nearest to (-1)^s * M * 2^E (ties to even)
FRound(s, M, E) == IF M = <<>> THEN FZero ELSE FRoundLen(s, M, E, BBitLen(M))

FNeg(x) == IF x.m = <<>> THEN x ELSE [x EXCEPT !.s = 1 - x.s]

FAbs(x) == [x EXCEPT !.s = 0]

\* X and Y are the magnitudes at the common exponent e, c their comparison
\* (1 when the signs agree)
FAddCmp(sx, X, sy, Y, e, c) ==
    IF c = 0 THEN FZero
    ELSE FRound(IF c = 1 THEN sx ELSE sy,
                IF sx = sy THEN BAdd(X, Y)
                ELSE BSub(IF c = 1 THEN X ELSE Y, IF c = 1 THEN Y ELSE X),
                e)

FAddMag(sx, X, sy, Y, e) ==
    FAddCmp(sx, X, sy, Y, e, IF sx = sy THEN 1 ELSE BCmp(X, Y))

FAddAt(x, y, e) ==
    FAddMag(x.s, BShl(x.m, x.e - e), y.s, BShl(y.m, y.e - e), e)

FAdd(x, y) ==
    IF x.m = <<>> THEN y
    ELSE IF y.m = <<>> THEN x
    ELSE FAddAt(x, y, IF x.e < y.e THEN x.e ELSE y.e)

FSub(x, y) == FAdd(x, FNeg(y))

FMul(x, y) ==
    IF x.m = <<>> \/ y.m = <<>> THEN FZero
    ELSE FRound((x.s + y.s) % 2, BMul(x.m, y.m), x.e + y.e)

FDivRound(s, qr, E) ==
    FRound(s, BMulSmall(qr[1], 2, IF qr[2] = <<>> THEN 0 ELSE 1), E)

FDivLow(x, y, z) ==
    FDivRound((x.s + y.s) % 2,
              BDivMod(BShl(x.m, 53 + 4), SubSeq(y.m, z + 1, Len(y.m))),
              x.e - y.e - 15 * z - 57 - 1)

\* x / y for y # 0: the quotient to 58 bits and a sticky bit, rounded once;
\* the zero limbs at the low end of y's mantissa go into the exponent
FDiv(x, y) == IF x.m = <<>> THEN FZero ELSE FDivLow(x, y, BLowZeros(y.m))

FSign(d) == IF d.m = <<>> THEN 0 ELSE IF d.s = 1 THEN -1 ELSE 1

\* -1, 0, 1 as x < y, x = y, x > y
FCmp(x, y) == FSign(FSub(x, y))

FLt(x, y) == FCmp(x, y) = -1
FLe(x, y) == FCmp(x, y) <= 0
FGt(x, y) == FCmp(x, y) = 1
FGe(x, y) == FCmp(x, y) >= 0

\* Python's min(a, b) / max(a, b): the first argument unless the second is
\* strictly smaller / larger
FMin(a, b) == IF FLt(b, a) THEN b ELSE a
FMax(a, b) == IF FGt(b, a) THEN b ELSE a

\* float(n) for an int n
FromInt(n) ==
    FRound(IF n < 0 THEN 1 ELSE 0, BFromInt(IF n < 0 THEN -n ELSE n), 0)

\* the value of the decimal literal n/d (d a power of ten): the literal is
\* converted to the nearest float, which is the correctly rounded quotient
Dec(n, d) == FDiv(FromInt(n), FromInt(d))

One == FromInt(1)

Format2fRound(s, M, sh) ==
    (IF s = 1 THEN -1 ELSE 1) * BToInt(BShrRound(M, sh))

\* format(x, ".2f"): the decimal with two places nearest to the exact value
\* of x (ties to even), as the integer number of hundredths; "0.70" is 70
Format2f(x) ==
    IF x.m = <<>> THEN 0
    ELSE IF x.e >= 0
    THEN (IF x.s = 1 THEN -1 ELSE 1) * BToInt(BShl(BMulSmall(x.m, 100, 0), x.e))
    ELSE Format2fRound(x.s, BMulSmall(x.m, 100, 0), -x.e)

(***************************************************************************)
(* State.                                                                  *)
(***************************************************************************)
VARIABLES
    pattern_signatures, \* recognize_historical_patterns: the list handed to
                        \* _cluster_patterns
    pattern_clusters,   \* what _cluster_patterns returned
    cluster_pc,         \* recognize_historical_patterns: "collect" in the
                        \* loop over the matches, "done" after clustering
    sim,                \* the calculate_pattern_similarity calls made so
                        \* far: arguments and returned value
    process_func,       \* BatchProcessor.process_func
    bp_entry,           \* the batch call made: "process_batch" or
                        \* "gather_with_concurrency"
    bp_pc,              \* "new", "idle", "gather" (the call awaits
                        \* asyncio.gather), "returned" or "raised"
    items,              \* the call's input list
    offset,             \* the number of items in the chunks before the
                        \* one awaited
    tasks,              \* the executor futures created so far, one per item
    results,            \* the results list of the call
    gather_exc,         \* the exception the awaited gather has taken, or ""
    clock,              \* time, in units of which Timeout is self.timeout
    chunk_started,      \* the time at which the awaited chunk was submitted
    analysis,           \* the analyze_text call made: its arguments and the
                        \* returned profile
    frustration_call,   \* the _determine_frustration_type call made: its
                        \* text, the hits of each category and the result
    emotion_history,    \* the StudentEmotionHistory of a student: its lists
    prediction,         \* what predict_emotion_evolution returned for it
    import_pc,          \* DataImporter.import_data: "new", "rows" in the loop
                        \* of _process_data, "returned"
    raw_data,           \* the rows loaded from the file
    row_index,          \* the number of rows the loop has taken
    student_journeys,   \* the journeys of _process_data
    validation_errors,  \* DataImporter.validation_errors
    processed_rows,     \* DataImporter.processed_rows
    valid_rows,         \* DataImporter.valid_rows
    invalid_rows,       \* DataImporter.invalid_rows
    missing_values,     \* DataImporter.missing_values
    quality_metrics,    \* the DataQualityMetrics returned
    redis,              \* the keys CacheService holds in Redis, each with
                        \* its stored text
    vector_db,          \* the ids of the documents in the emotion_patterns
                        \* collection
    found_patterns,     \* the find_emotion_patterns call made last: its
                        \* arguments, the stored data and what it returned
    predicted_outcomes, \* the clusters handed to
                        \* _predict_outcomes_from_patterns and its result
    document_embeddings, \* VectorCache.document_embeddings: its keys
    query_embeddings,   \* VectorCache.query_embeddings: its keys
    document_metadata,  \* VectorCache.document_metadata: its keys
    last_accessed,      \* VectorCache.last_accessed: its items in order
    time_now,           \* what time.time() returns
    worker,             \* the find_emotion_patterns call an executor thread
                        \* is making: its place in the cached wrapper, its
                        \* arguments, its result and the data it was read from
    store_pc,           \* the store_student_emotion_vector call of the event
                        \* loop: "idle", "stored" (the document is written),
                        \* "keys" (invalidate_cache holds the keys to delete)
    invalidate_keys,    \* keys of the invalidate_cache wrapper
    computed_from,      \* for each cache entry, the stored data its value
                        \* was computed from
    answered            \* the call the thread's wrapper answered last

patternVars == <<pattern_signatures, pattern_clusters, cluster_pc, sim>>

batchVars == <<process_func, bp_entry, bp_pc, items, offset, tasks, results,
               gather_exc, clock, chunk_started>>

analyzerVars == <<analysis, frustration_call>>

predictorVars == <<emotion_history, prediction>>

importVars == <<import_pc, raw_data, row_index, student_journeys,
                validation_errors, processed_rows, valid_rows, invalid_rows,
                missing_values, quality_metrics>>

serviceVars == <<redis, vector_db, found_patterns, predicted_outcomes>>

vectorCacheVars == <<document_embeddings, query_embeddings, document_metadata,
                     last_accessed, time_now>>

threadVars == <<worker, store_pc, invalidate_keys, computed_from, answered>>

vars == <<patternVars, batchVars, analyzerVars, predictorVars, importVars,
          serviceVars, vectorCacheVars, threadVars>>

(***************************************************************************)
(* Text: str methods and the re module, on ASCII strings.                  *)
(***************************************************************************)
\* the lower-case form of one character
LowerChar(c) ==
    CASE c = "A" -> "a" [] c = "B" -> "b" [] c = "C" -> "c" [] c = "D" -> "d"
      [] c = "E" -> "e" [] c = "F" -> "f" [] c = "G" -> "g" [] c = "H" -> "h"
      [] c = "I" -> "i" [] c = "J" -> "j" [] c = "K" -> "k" [] c = "L" -> "l"
      [] c = "M" -> "m" [] c = "N" -> "n" [] c = "O" -> "o" [] c = "P" -> "p"
      [] c = "Q" -> "q" [] c = "R" -> "r" [] c = "S" -> "s" [] c = "T" -> "t"
      [] c = "U" -> "u" [] c = "V" -> "v" [] c = "W" -> "w" [] c = "X" -> "x"
      [] c = "Y" -> "y" [] c = "Z" -> "z" [] OTHER -> c

\* c.isupper()
IsUpper(c) == LowerChar(c) # c

\* str.lower()
RECURSIVE Lower(_)
Lower(str) ==
    IF str = "" THEN "" ELSE LowerChar(Head(str)) \o Lower(Tail(str))

\* text[i:] starts with word
StartsAt(text, i, word) ==
    /\ i + Len(word) - 1 <= Len(text)
    /\ SubSeq(text, i, i + Len(word) - 1) = word

\* word in text
Contains(text, word) == \E i \in 1..(Len(text) + 1) : StartsAt(text, i, word)

\* sum(1 for word in words if word.lower() in text), from the k-th word on;
\* text is the lowered text
RECURSIVE CountFrom(_, _, _)
CountFrom(words, text, k) ==
    IF k > Len(words) THEN 0
    ELSE (IF Contains(text, Lower(words[k])) THEN 1 ELSE 0)
         + CountFrom(words, text, k + 1)

CountIn(words, text) == CountFrom(words, text, 1)

\* any(phrase in text for phrase in phrases)
AnyIn(phrases, text) == \E k \in 1..Len(phrases) : Contains(text, phrases[k])

\* [word for word in words if word in text], from the k-th word on
RECURSIVE ThoseFrom(_, _, _)
ThoseFrom(words, text, k) ==
    IF k > Len(words) THEN <<>>
    ELSE (IF Contains(text, words[k]) THEN <<words[k]>> ELSE <<>>)
         \o ThoseFrom(words, text, k + 1)

\* text.count(c) for a character c, from position i on
RECURSIVE CountCharFrom(_, _, _)
CountCharFrom(text, c, i) ==
    IF i > Len(text) THEN 0
    ELSE (IF SubSeq(text, i, i) = c THEN 1 ELSE 0) + CountCharFrom(text, c, i + 1)

\* sum(1 for c in text if c.isupper()), from position i on
RECURSIVE CountUpperFrom(_, _)
CountUpperFrom(text, i) ==
    IF i > Len(text) THEN 0
    ELSE (IF IsUpper(SubSeq(text, i, i)) THEN 1 ELSE 0) + CountUpperFrom(text, i + 1)

\* str.replace(old, ""): the occurrences of old are removed left to right
RECURSIVE Remove(_, _)
Remove(str, old) ==
    IF str = "" THEN ""
    ELSE IF StartsAt(str, 1, old) THEN Remove(SubSeq(str, Len(old) + 1, Len(str)), old)
    ELSE Head(str) \o Remove(Tail(str), old)

\* str.split(sep)[0] for a one-character sep
RECURSIVE SplitFirst(_, _)
SplitFirst(str, sep) ==
    IF str = "" \/ Head(str) = sep THEN ""
    ELSE Head(str) \o SplitFirst(Tail(str), sep)

\* A regular expression is the sequence of its parts, matched one after the
\* other: a part is the set of the literal alternatives of a group (an
\* optional group has the alternative ""), or AnyChars for ".*".
AnyChars == {".*"}

\* "." matches every character but the newline
NoNewline(text, i, j) == \A k \in i..(j - 1) : SubSeq(text, k, k) # "\n"

\* the parts from the k-th on match text at position i
RECURSIVE MatchAt(_, _, _, _)
MatchAt(text, i, parts, k) ==
    IF k > Len(parts) THEN TRUE
    ELSE IF parts[k] = AnyChars
    THEN \E j \in i..(Len(text) + 1) :
             NoNewline(text, i, j) /\ MatchAt(text, j, parts, k + 1)
    ELSE \E alt \in parts[k] :
             StartsAt(text, i, alt) /\ MatchAt(text, i + Len(alt), parts, k + 1)

\* re.search(pattern, text) is not None
re_search(parts, text) == \E i \in 1..(Len(text) + 1) : MatchAt(text, i, parts, 1)

\* any(re.search(pattern, text) for pattern in patterns)
AnySearch(patterns, text) ==
    \E k \in 1..Len(patterns) : re_search(patterns[k], text)

(***************************************************************************)
(* HistoricalPatternService: signatures.                                   *)
(***************************************************************************)

\* _urgency_to_numeric: the tenths of the mapped literal (0.2 is 2)
UrgencyTenths(urgency_level) ==
    LET u == Lower(urgency_level)
    IN  CASE u = "low" -> 2
          [] u = "medium" -> 4
          [] u = "high" -> 6
          [] u = "critical" -> 8
          [] u = "immediate" -> 10
          [] OTHER -> 0

urgency_to_numeric(urgency_level) == Dec(UrgencyTenths(urgency_level), 10)

TrajectoryTenths(trajectory) ==
    LET t == Lower(trajectory)
    IN  CASE t = "improving" -> 8
          [] t = "neutral" -> 5
          [] t = "declining" -> 2
          [] t = "fluctuating" -> 4
          [] OTHER -> 5

\* frustration_type[:3]
First3(frustration_type) ==
    CASE frustration_type = "technical" -> "tec"
      [] frustration_type = "content" -> "con"
      [] frustration_type = "support" -> "sup"
      [] frustration_type = "pace" -> "pac"
      [] frustration_type = "mixed" -> "mix"
      [] OTHER -> frustration_type

\* One "_"-separated component of a signature: its first character (type)
\* and the text after it, which is the letters in rest followed by a decimal
\* with two places ("dec2", n hundredths), by the repr of a float of the
\* urgency or trajectory table ("dec1", n tenths), by "0" or "1" ("int"), or
\* by the letters n ("str").
Comp(type, rest, kind, n) ==
    [type |-> type, rest |-> rest, kind |-> kind, n |-> n]

\* generate_pattern_signature: the ten components in order
generate_pattern_signature(p) ==
    << Comp("f", "", "dec2", Format2f(p.frustration_level)),
       Comp("e", "", "dec2", Format2f(p.engagement_level)),
       Comp("c", "", "dec2", Format2f(p.confidence_level)),
       Comp("s", "", "dec2", Format2f(p.satisfaction_level)),
       Comp("t", "", "dec2", Format2f(p.emotional_temperature)),
       Comp("v", "", "dec2", Format2f(p.emotional_volatility)),
       Comp("h", "", "int", IF p.hidden_dissatisfaction_flag THEN 1 ELSE 0),
       Comp("u", "", "dec1", UrgencyTenths(p.urgency_level)),
       Comp("f", "t", "str", First3(p.frustration_type)),
       Comp("t", "r", "dec1", TrajectoryTenths(p.emotional_trajectory)) >>

\* float(val) on the text after a component's first character: a float, or
\* ValueError when letters precede the digits or there are no digits
ValueError == [raised |-> "ValueError"]

ParseFloat(c) ==
    IF c.rest # "" \/ c.kind = "str" THEN ValueError
    ELSE IF c.kind = "dec2" THEN Dec(c.n, 100)
    ELSE IF c.kind = "dec1" THEN Dec(c.n, 10)
    ELSE FromInt(c.n)

\* abs(v1 - v2) <= 0.2 counts as a match; a ValueError of either float()
\* leaves the pair unmatched
CloseValues(v1, v2) ==
    IF v1 = ValueError \/ v2 = ValueError THEN 0
    ELSE IF FLe(FAbs(FSub(v1, v2)), Dec(2, 10)) THEN 1 ELSE 0

\* one pass of the zip loop of _are_signatures_similar: 1 if the pair of
\* components counts as a match
ComponentMatch(c1, c2) ==
    IF c1.type # c2.type THEN 0
    ELSE IF c1.type \in {"f", "e", "c", "s", "t", "v", "u", "h"}
    THEN CloseValues(ParseFloat(c1), ParseFloat(c2))
    ELSE IF c1 = c2 THEN 1 ELSE 0

RECURSIVE CountMatches(_, _, _)
CountMatches(sig1, sig2, i) ==
    IF i = 0 THEN 0
    ELSE CountMatches(sig1, sig2, i - 1) + ComponentMatch(sig1[i], sig2[i])

are_signatures_similar(sig1, sig2) ==
    IF Len(sig1) # Len(sig2) THEN FALSE
    ELSE FGe(FDiv(FromInt(CountMatches(sig1, sig2, Len(sig1))),
                  FromInt(Len(sig1))),
             Dec(7, 10))

(***************************************************************************)
(* HistoricalPatternService._cluster_patterns.  A cluster's "patterns"     *)
(* list holds references to the input dicts: indices of the input list.    *)
(***************************************************************************)
RECURSIVE FSumScores(_, _, _)
\* sum(p["similarity_score"] for p in patterns): 0 + s1 + s2 + ...
FSumScores(input, members, k) ==
    IF k = 0 THEN FZero
    ELSE FAdd(FSumScores(input, members, k - 1),
              input[members[k]].similarity_score)

\* a variant of processed.add that records nothing
MarkNothing(processed, j) == processed

\* processed.add(j)
MarkProcessed(processed, j) == processed \cup {j}

\* cluster["patterns"].append(other) and the average over the new list
AddMember(input, cluster, members) ==
    [cluster EXCEPT
        !.patterns = members,
        !.avg_similarity =
            FDiv(FSumScores(input, members, Len(members)),
                 FromInt(Len(members)))]

RECURSIVE Absorb(_, _, _, _, _)
\* the inner loop over j for the cluster opened at i
Absorb(input, i, j, cluster, processed) ==
    IF j > Len(input) THEN <<cluster, processed>>
    ELSE IF j \in processed \/ i = j
    THEN Absorb(input, i, j + 1, cluster, processed)
    ELSE IF are_signatures_similar(input[i].signature, input[j].signature)
    THEN Absorb(input, i, j + 1,
                AddMember(input, cluster, Append(cluster.patterns, j)),
                MarkProcessed(processed, j))
    ELSE Absorb(input, i, j + 1, cluster, processed)

\* the cluster opened at item i
NewCluster(input, i, clusters) ==
    [cluster_id |-> Len(clusters) + 1,
     patterns |-> <<i>>,
     avg_similarity |-> input[i].similarity_score,
     signature_prototype |-> input[i].signature]

RECURSIVE ClusterFrom(_, _, _, _)
\* clusters.append(cluster), then on to the next i
ClusterNext(input, i, clusters, done) ==
    ClusterFrom(input, i + 1, Append(clusters, done[1]), done[2])

\* the outer loop over i
ClusterFrom(input, i, clusters, processed) ==
    IF i > Len(input) THEN clusters
    ELSE IF i \in processed THEN ClusterFrom(input, i + 1, clusters, processed)
    ELSE ClusterNext(input, i, clusters,
                     Absorb(input, i, 1, NewCluster(input, i, clusters),
                            MarkProcessed(processed, i)))

cluster_patterns(input) == ClusterFrom(input, 1, <<>>, {})

(***************************************************************************)
(* HistoricalPatternService.calculate_pattern_similarity.                  *)
(***************************************************************************)
\* a variant of abs(a - b) that keeps the sign
SignedDiff(a, b) == FSub(a, b)

\* abs(a - b)
AbsDiff(a, b) == FAbs(FSub(a, b))

calculate_pattern_similarity(pattern1, pattern2) ==
    LET primary_diff ==
            FDiv(FAdd(FAdd(FAdd(
                AbsDiff(pattern1.frustration_level, pattern2.frustration_level),
                AbsDiff(pattern1.engagement_level, pattern2.engagement_level)),
                AbsDiff(pattern1.confidence_level, pattern2.confidence_level)),
                AbsDiff(pattern1.satisfaction_level, pattern2.satisfaction_level)),
                FromInt(4))
        primary_sim == FSub(One, primary_diff)
        temp_vol_diff ==
            FDiv(FAdd(
                AbsDiff(pattern1.emotional_temperature, pattern2.emotional_temperature),
                AbsDiff(pattern1.emotional_volatility, pattern2.emotional_volatility)),
                FromInt(2))
        temp_vol_sim == FSub(One, temp_vol_diff)
        hidden_sim ==
            IF pattern1.hidden_dissatisfaction_flag = pattern2.hidden_dissatisfaction_flag
            THEN One ELSE FZero
        urgency_sim ==
            FSub(One, AbsDiff(urgency_to_numeric(pattern1.urgency_level),
                              urgency_to_numeric(pattern2.urgency_level)))
        trajectory_sim ==
            IF pattern1.emotional_trajectory = pattern2.emotional_trajectory
            THEN One ELSE FZero
    IN  FAdd(FAdd(FAdd(FAdd(
            FMul(Dec(4, 10), primary_sim),
            FMul(Dec(2, 10), temp_vol_sim)),
            FMul(Dec(15, 100), hidden_sim)),
            FMul(Dec(15, 100), urgency_sim)),
            FMul(Dec(1, 10), trajectory_sim))

(***************************************************************************)
(* Inputs of the pattern service.                                          *)
(***************************************************************************)
\* an EmotionProfile (analyzer.py: class EmotionProfile)
BaseProfile ==
    [frustration_level |-> Dec(5, 10), engagement_level |-> Dec(5, 10),
     confidence_level |-> Dec(5, 10), satisfaction_level |-> Dec(5, 10),
     frustration_type |-> "mixed", frustration_intensity |-> "moderate",
     frustration_trend |-> "stable",
     urgency_level |-> "low", urgency_signals |-> <<>>,
     response_urgency |-> "routine",
     emotional_temperature |-> Dec(5, 10), emotional_volatility |-> Dec(3, 10),
     emotional_trajectory |-> "neutral",
     hidden_dissatisfaction_flag |-> FALSE,
     hidden_dissatisfaction_confidence |-> FZero, hidden_signals |-> <<>>,
     politeness_mask_level |-> FZero,
     dropout_risk_emotions |-> <<>>, positive_recovery_indicators |-> <<>>,
     emotional_triggers |-> <<>>,
     emotion_coherence |-> One, sentiment_authenticity |-> Dec(8, 10),
     emotional_complexity |-> "simple"]

SimProfiles ==
    { [BaseProfile EXCEPT !.frustration_level = f, !.emotional_volatility = v,
                          !.hidden_dissatisfaction_flag = h,
                          !.urgency_level = u, !.frustration_type = ft,
                          !.emotional_trajectory = tr] :
        f \in {Dec(3, 10), One}, v \in {Dec(3, 10), Dec(9, 10)},
        h \in BOOLEAN, u \in {"low", "High"},
        ft \in {"technical", "content"}, tr \in {"neutral", "declining"} }

\* the second profile's signature is similar to the two others', which
\* are not similar to each other
ClusterProfiles ==
    { BaseProfile,
      [BaseProfile EXCEPT !.frustration_level = Dec(8, 10)],
      [BaseProfile EXCEPT !.frustration_level = One,
                          !.satisfaction_level = FZero] }

MatchScores == {Dec(9, 10), Dec(5, 10)}

MaxPatterns == 3

(***************************************************************************)
(* Pattern clustering as a state machine.                                  *)
(***************************************************************************)
\* no signature collected, no similarity computed, no batch processor built,
\* no text analyzed, no data point in the history
Init ==
    /\ pattern_signatures = <<>>
    /\ pattern_clusters = <<>>
    /\ cluster_pc = "collect"
    /\ sim = <<>>
    /\ process_func = ""
    /\ bp_entry = ""
    /\ bp_pc = "new"
    /\ items = <<>>
    /\ offset = 0
    /\ tasks = <<>>
    /\ results = <<>>
    /\ gather_exc = ""
    /\ clock = 0
    /\ chunk_started = 0
    /\ analysis = <<>>
    /\ frustration_call = <<>>
    /\ emotion_history = [weeks |-> <<>>, frustration_levels |-> <<>>,
                  engagement_levels |-> <<>>, confidence_levels |-> <<>>,
                  satisfaction_levels |-> <<>>,
                  hidden_dissatisfaction_flags |-> <<>>]
    /\ prediction = <<>>
    /\ import_pc = "new"
    /\ raw_data = <<>>
    /\ row_index = 0
    /\ student_journeys = <<>>
    /\ validation_errors = <<>>
    /\ processed_rows = 0
    /\ valid_rows = 0
    /\ invalid_rows = 0
    /\ missing_values = [column \in {} |-> 0]
    /\ quality_metrics = <<>>
    /\ redis = [key \in {} |-> ""]
    /\ vector_db = {}
    /\ found_patterns = <<>>
    /\ predicted_outcomes = <<>>
    /\ document_embeddings = {}
    /\ query_embeddings = {}
    /\ document_metadata = {}
    /\ last_accessed = <<>>
    /\ time_now = 0
    /\ worker = [pc |-> "idle"]
    /\ store_pc = "idle"
    /\ invalidate_keys = {}
    /\ computed_from = [key \in {} |-> {}]
    /\ answered = <<>>

\* recognize_historical_patterns, the body of the loop over the matches: the
\* signature of one matched profile is appended
AppendSignature(p, score) ==
    /\ cluster_pc = "collect"
    /\ Len(pattern_signatures) < MaxPatterns
    /\ pattern_signatures' =
           Append(pattern_signatures,
                  [signature |-> generate_pattern_signature(p),
                   similarity_score |-> score])
    /\ UNCHANGED <<pattern_clusters, cluster_pc, sim, batchVars, analyzerVars, predictorVars,
                   importVars, serviceVars, vectorCacheVars, threadVars>>

\* _cluster_patterns(pattern_signatures)
ClusterPatterns ==
    /\ cluster_pc = "collect"
    /\ pattern_clusters' = cluster_patterns(pattern_signatures)
    /\ cluster_pc' = "done"
    /\ UNCHANGED <<pattern_signatures, sim, batchVars, analyzerVars, predictorVars,
                   importVars, serviceVars, vectorCacheVars, threadVars>>

NextCluster ==
    \/ \E p \in ClusterProfiles, score \in MatchScores : AppendSignature(p, score)
    \/ ClusterPatterns

SpecCluster == Init /\ [][NextCluster]_vars

(***************************************************************************)
(* Similarity scoring as a state machine.                                  *)
(***************************************************************************)
CalculatePatternSimilarity(pattern1, pattern2) ==
    /\ sim = <<>>
    /\ sim' = <<[pattern1 |-> pattern1, pattern2 |-> pattern2,
                 similarity |-> calculate_pattern_similarity(pattern1, pattern2)]>>
    /\ UNCHANGED <<pattern_signatures, pattern_clusters, cluster_pc, batchVars, analyzerVars, predictorVars,
                   importVars, serviceVars, vectorCacheVars, threadVars>>

NextSim ==
    \E pattern1 \in SimProfiles, pattern2 \in SimProfiles :
        CalculatePatternSimilarity(pattern1, pattern2)

SpecSim == Init /\ [][NextSim]_vars

(***************************************************************************)
(* BatchProcessor.process_batch and AsyncService.gather_with_concurrency.  *)
(* What processing an item does is the item's "outcome": it returns        *)
(* ("ok"), raises ("raise"), raises a TimeoutError ("raise_timeout") or    *)
(* does not finish ("never").                                              *)
(***************************************************************************)
None == [none |-> TRUE]

MaxItems == 3
BatchSize == 2
MaxWorkers == 2
Timeout == 1
MaxClock == 2

BatchItems ==
    { [id |-> "a", outcome |-> "ok"], [id |-> "b", outcome |-> "ok"],
      [id |-> "c", outcome |-> "raise"],
      [id |-> "d", outcome |-> "raise_timeout"],
      [id |-> "e", outcome |-> "never"] }

BatchInputs == UNION { [1..n -> BatchItems] : n \in 0..MaxItems }

\* self.process_func: any callable, or EmotionBatchProcessor's
\* _process_feedback, whose except branch returns the feedback as it came
ProcessFuncs == {"process_func", "_process_feedback"}

Raises(f, item) ==
    f = "process_func" /\ item.outcome \in {"raise", "raise_timeout"}

ExceptionOf(item) ==
    IF item.outcome = "raise_timeout" THEN "TimeoutError" ELSE "Exception"

\* what process_func(item) returns when it returns
ResultOf(f, item) == [id |-> item.id, processed |-> item.outcome = "ok"]

Min(a, b) == IF a < b THEN a ELSE b

\* the number of items the call awaits together from item off + 1 on:
\* items[i:i + self.batch_size], or all the coroutines
ChunkLen(entry, its, off) ==
    IF entry = "gather_with_concurrency" THEN Len(its)
    ELSE Min(BatchSize, Len(its) - off)

\* loop.run_in_executor for each item of the chunk
NewTasks(n) == [i \in 1..n |-> [status |-> "queued", in_time |-> FALSE, nth |-> 0]]

\* a variant of the gathered list with the chunk's results in reverse order
GatheredReversed(f, its, from, to) ==
    [k \in 1..(to - from + 1) |-> ResultOf(f, its[to + 1 - k])]

\* the list asyncio.gather returns: the results in the order of the tasks
Gathered(f, its, from, to) ==
    [k \in 1..(to - from + 1) |-> ResultOf(f, its[from + k - 1])]

\* [None] * len(items)
Nones(n) == [k \in 1..n |-> None]

Finished(ts) == { i \in DOMAIN ts : ts[i].status \in {"done", "failed"} }

\* __init__ of BatchProcessor (of AsyncService)
BatchProcessorInit(f) ==
    /\ bp_pc = "new"
    /\ process_func' = f
    /\ bp_pc' = "idle"
    /\ UNCHANGED <<bp_entry, items, offset, tasks, results, gather_exc,
                   clock, chunk_started, patternVars,
                   analyzerVars, predictorVars,
                   importVars, serviceVars, vectorCacheVars, threadVars>>

\* the call up to its first await: an empty list is answered at once,
\* otherwise the first chunk's tasks are created
StartCall(entry, its) ==
    /\ bp_pc = "idle"
    /\ bp_entry' = entry
    /\ items' = its
    /\ results' = <<>>
    /\ offset' = 0
    /\ gather_exc' = ""
    /\ chunk_started' = clock
    /\ tasks' = NewTasks(ChunkLen(entry, its, 0))
    /\ bp_pc' = IF its = <<>> THEN "returned" ELSE "gather"
    /\ UNCHANGED <<process_func, clock, patternVars,
                   analyzerVars, predictorVars,
                   importVars, serviceVars, vectorCacheVars, threadVars>>

ProcessBatch(its) == StartCall("process_batch", its)

GatherWithConcurrency(its) == StartCall("gather_with_concurrency", its)

\* a pool thread (a semaphore slot) takes the oldest waiting task
WorkerStart(i) ==
    /\ bp_pc = "gather"
    /\ i \in DOMAIN tasks
    /\ tasks[i].status = "queued"
    /\ \A j \in 1..(i - 1) : tasks[j].status # "queued"
    /\ Cardinality({ j \in DOMAIN tasks : tasks[j].status = "running" }) < MaxWorkers
    /\ tasks' = [tasks EXCEPT ![i].status = "running"]
    /\ UNCHANGED <<process_func, bp_entry, bp_pc, items, offset, results,
                   gather_exc, clock, chunk_started, patternVars,
                   analyzerVars, predictorVars,
                   importVars, serviceVars, vectorCacheVars, threadVars>>

\* process_func(item) returns or raises; gather takes the first exception
\* of the tasks it waits for
WorkerFinish(i) ==
    /\ bp_pc = "gather"
    /\ i \in DOMAIN tasks
    /\ tasks[i].status = "running"
    /\ items[i].outcome # "never"
    /\ tasks' = [tasks EXCEPT
                   ![i].status = IF Raises(process_func, items[i])
                                 THEN "failed" ELSE "done",
                   ![i].in_time = (clock <= chunk_started + Timeout),
                   ![i].nth = Cardinality(Finished(tasks)) + 1]
    /\ gather_exc' = IF Raises(process_func, items[i]) /\ gather_exc = "" /\ i > offset
                     THEN ExceptionOf(items[i]) ELSE gather_exc
    /\ UNCHANGED <<process_func, bp_entry, bp_pc, items, offset, results,
                   clock, chunk_started, patternVars,
                   analyzerVars, predictorVars,
                   importVars, serviceVars, vectorCacheVars, threadVars>>

\* the rest of the call after a chunk is answered with the list chunk:
\* results.extend, then the next chunk's tasks or the return
Continue(chunk) ==
    /\ results' = results \o chunk
    /\ IF Len(tasks) = Len(items)
       THEN /\ bp_pc' = "returned"
            /\ UNCHANGED <<tasks, offset, chunk_started, gather_exc, vectorCacheVars, threadVars>>
       ELSE /\ bp_pc' = "gather"
            /\ tasks' = tasks \o NewTasks(ChunkLen(bp_entry, items, Len(tasks)))
            /\ offset' = Len(tasks)
            /\ chunk_started' = clock
            /\ gather_exc' = ""
    /\ UNCHANGED <<process_func, bp_entry, items, clock, patternVars,
                   analyzerVars, predictorVars,
                   importVars, serviceVars, vectorCacheVars, threadVars>>

\* await asyncio.gather(*tasks) returns: every task of the chunk is done
GatherDone ==
    /\ bp_pc = "gather"
    /\ gather_exc = ""
    /\ \A i \in (offset + 1)..Len(tasks) : tasks[i].status = "done"
    /\ Continue(Gathered(process_func, items, offset + 1, Len(tasks)))

\* await asyncio.gather(*tasks) raises: a TimeoutError is caught by
\* process_batch, any other exception leaves the call
GatherFailed ==
    /\ bp_pc = "gather"
    /\ gather_exc # ""
    /\ IF gather_exc = "TimeoutError" /\ bp_entry = "process_batch"
       THEN Continue(Nones(Len(tasks) - offset))
       ELSE /\ bp_pc' = "raised"
            /\ UNCHANGED <<process_func, bp_entry, items, offset, tasks,
                           results, gather_exc, clock, chunk_started,
                           patternVars,
                   analyzerVars, predictorVars,
                   importVars, serviceVars, vectorCacheVars, threadVars>>

\* time passes while the call waits
Tick ==
    /\ bp_pc = "gather"
    /\ clock < MaxClock
    /\ clock' = clock + 1
    /\ UNCHANGED <<process_func, bp_entry, bp_pc, items, offset, tasks,
                   results, gather_exc, chunk_started, patternVars,
                   analyzerVars, predictorVars,
                   importVars, serviceVars, vectorCacheVars, threadVars>>

NextBatch ==
    \/ \E f \in ProcessFuncs : BatchProcessorInit(f)
    \/ \E its \in BatchInputs : ProcessBatch(its)
    \/ \E its \in BatchInputs : GatherWithConcurrency(its)
    \/ \E i \in 1..MaxItems : WorkerStart(i)
    \/ \E i \in 1..MaxItems : WorkerFinish(i)
    \/ GatherDone
    \/ GatherFailed
    \/ Tick

SpecBatch == Init /\ [][NextBatch]_vars

(***************************************************************************)
(* AdvancedEmotionAnalyzer: the lexicons of __init__.  A dict is the       *)
(* sequence of its items in insertion order.                               *)
(***************************************************************************)
frustration_words ==
    << [key |-> "technical",
        value |-> <<"website", "platform", "error", "bug", "login", "system",
                    "lms", "interface", "broken", "glitch">>],
       [key |-> "content",
        value |-> <<"material", "content", "lecture", "understand", "concept",
                    "difficult", "confusing", "unclear">>],
       [key |-> "support",
        value |-> <<"help", "support", "response", "answer", "question",
                    "ignored", "waiting", "unresponsive">>],
       [key |-> "pace",
        value |-> <<"fast", "slow", "pace", "speed", "keep up", "behind",
                    "rushed", "dragging">>] >>

urgency_phrases ==
    << [key |-> "immediate",
        value |-> <<"immediately", "urgent", "asap", "right now", "can't wait",
                    "emergency", "critical", "desperate">>],
       [key |-> "critical",
        value |-> <<"very urgent", "need help now", "can't continue",
                    "blocking me", "impossible", "giving up">>],
       [key |-> "high",
        value |-> <<"soon", "quickly", "need help", "struggling", "important",
                    "priority", "stuck">>],
       [key |-> "medium",
        value |-> <<"when possible", "would like", "appreciate",
                    "should be addressed", "needs attention">>],
       [key |-> "low",
        value |-> <<"eventually", "minor", "small issue", "not urgent",
                    "whenever", "no rush">>] >>

\* each pattern with its source text, from which its name is derived
hidden_dissatisfaction_patterns ==
    << [source |-> "(it's|its) (fine|okay|alright)( I guess| I suppose)?",
        parts |-> <<{"it's", "its"}, {" "}, {"fine", "okay", "alright"},
                    {"", " I guess", " I suppose"}>>],
       [source |-> "not (too|that) bad",
        parts |-> <<{"not "}, {"too", "that"}, {" bad"}>>],
       [source |-> "could be (better|worse)",
        parts |-> <<{"could be "}, {"better", "worse"}>>],
       [source |-> "I (suppose|guess) it('s| is) (okay|fine|alright)",
        parts |-> <<{"I "}, {"suppose", "guess"}, {" it"}, {"'s", " is"}, {" "},
                    {"okay", "fine", "alright"}>>],
       [source |-> "(works|functions) (well enough|adequately)",
        parts |-> <<{"works", "functions"}, {" "},
                    {"well enough", "adequately"}>>],
       [source |-> "(somewhat|kind of|sort of) (helpful|useful)",
        parts |-> <<{"somewhat", "kind of", "sort of"}, {" "},
                    {"helpful", "useful"}>>],
       [source |-> "(better than|not as bad as) (expected|anticipated)",
        parts |-> <<{"better than", "not as bad as"}, {" "},
                    {"expected", "anticipated"}>>],
       [source |-> "(can't complain|no complaints) (too much|much)",
        parts |-> <<{"can't complain", "no complaints"}, {" "},
                    {"too much", "much"}>>],
       [source |-> "(doing|trying) (my|their) best",
        parts |-> <<{"doing", "trying"}, {" "}, {"my", "their"}, {" best"}>>],
       [source |-> "(probably|maybe) just me",
        parts |-> <<{"probably", "maybe"}, {" just me"}>>] >>

engagement_indicators ==
    [high |-> <<"excited", "interested", "engaged", "fascinating", "love",
                "enjoy", "captivating">>,
     medium |-> <<"good", "okay", "fine", "decent", "reasonable",
                  "satisfactory">>,
     low |-> <<"boring", "dull", "uninteresting", "tedious", "monotonous",
               "disengaged">>]

confidence_indicators ==
    [high |-> <<"confident", "sure", "certain", "understand", "grasp",
                "mastered", "clear">>,
     medium |-> <<"somewhat understand", "getting it", "making progress",
                  "improving">>,
     low |-> <<"confused", "lost", "uncertain", "unclear", "don't understand",
               "struggling">>]

dropout_risk_emotions ==
    <<"helplessness", "overwhelm", "isolation", "despair", "frustration",
      "anxiety", "hopelessness", "defeat", "inadequacy", "disconnection">>

positive_recovery_indicators ==
    <<"hope", "determination", "gratitude", "optimism", "relief",
      "confidence", "satisfaction", "enthusiasm", "motivation", "connection">>

(***************************************************************************)
(* Python values: an Optional is None or the value; a list or a dict is    *)
(* [items |-> the sequence of its elements or of its key/value items].     *)
(***************************************************************************)
IsNone(x) == "none" \in DOMAIN x

List(elements) == [items |-> elements]

\* bool(x) of an Optional list or dict
Truthy(x) == ~IsNone(x) /\ Len(x.items) > 0

\* dict.get(key, default)
Get(entry, key, default) == IF key \in DOMAIN entry THEN entry[key] ELSE default

\* sum(floats[k:]), starting from acc
RECURSIVE FSumFrom(_, _, _)
FSumFrom(floats, k, acc) ==
    IF k > Len(floats) THEN acc
    ELSE FSumFrom(floats, k + 1, FAdd(acc, floats[k]))

\* sum(floats)
FSum(floats) == FSumFrom(floats, 1, FZero)

\* score = max(score, floor) under a condition
RaiseIf(condition, score, floor) == IF condition THEN FMax(score, floor) ELSE score

\* score = min(score, ceiling) under a condition
LowerIf(condition, score, ceiling) ==
    IF condition THEN FMin(score, ceiling) ELSE score

(***************************************************************************)
(* AdvancedEmotionAnalyzer: the primary levels.  In every operator `low`   *)
(* is text.lower().                                                        *)
(***************************************************************************)
general_frustration ==
    <<"frustrating", "difficult", "confused", "struggle", "hard", "annoying",
      "terrible", "awful", "horrible", "useless", "waste", "disappointed">>

\* the category lists in dict order, then the general words
all_frustration_words ==
    frustration_words[1].value \o frustration_words[2].value
    \o frustration_words[3].value \o frustration_words[4].value
    \o general_frustration

strong_indicators == <<"extremely", "very", "incredibly", "terribly", "absolutely">>

explicit_patterns ==
    << <<{"I'm", "I am", "feeling"}, {" "},
         {"", "very ", "really ", "extremely "},
         {"frustrated", "annoyed", "upset"}>>,
       <<{"this is "}, {"", "very ", "really ", "extremely "},
         {"frustrating", "annoying", "infuriating"}>>,
       <<{"can't", "cannot"}, {" "}, {"stand", "handle", "deal with"}, {" "},
         {"this", "it"}, {" "}, {"", "anymore"}>> >>

\* intensity_multiplier = 1.0 + (0.5 * strong_count)
intensity_multiplier(strong_count) ==
    FAdd(One, FMul(Dec(5, 10), FromInt(strong_count)))

\* min(base_count * 0.15 * intensity_multiplier, 1.0)
frustration_score(base_count, strong_count) ==
    FMin(FMul(FMul(FromInt(base_count), Dec(15, 100)),
              intensity_multiplier(strong_count)),
         One)

\* _detect_frustration_level: the patterns are searched in text.lower()
detect_frustration_level(low) ==
    RaiseIf(AnySearch(explicit_patterns, low),
            frustration_score(CountIn(all_frustration_words, low),
                              CountIn(strong_indicators, low)),
            Dec(7, 10))

\* (high_count * 0.9 + medium_count * 0.5 + low_count * 0.1) / total_indicators
\* when there is an indicator, the neutral 0.5 otherwise
weighted_score(high_count, medium_count, low_count) ==
    IF high_count + medium_count + low_count > 0
    THEN FDiv(FAdd(FAdd(FMul(FromInt(high_count), Dec(9, 10)),
                        FMul(FromInt(medium_count), Dec(5, 10))),
                   FMul(FromInt(low_count), Dec(1, 10))),
              FromInt(high_count + medium_count + low_count))
    ELSE Dec(5, 10)

\* the weighted score of the indicator lists of a level dict
IndicatorScore(indicators, low) ==
    weighted_score(CountIn(indicators.high, low), CountIn(indicators.medium, low),
                   CountIn(indicators.low, low))

\* _detect_engagement_level
detect_engagement_level(low) ==
    LowerIf(re_search(<<{"I "}, {"", "really ", "absolutely "},
                        {"hate", "dislike", "can't stand"}>>, low),
            RaiseIf(re_search(<<{"I "}, {"", "really ", "absolutely "},
                                {"love", "enjoy", "like"}>>, low),
                    IndicatorScore(engagement_indicators, low),
                    Dec(8, 10)),
            Dec(2, 10))

\* _detect_confidence_level
detect_confidence_level(low) ==
    LowerIf(re_search(<<{"I"}, {"'m", " am"}, {" "},
                        {"", "very ", "really ", "extremely "},
                        {"confused", "lost", "unsure"}>>, low),
            RaiseIf(re_search(<<{"I"}, {"'m", " am"}, {" "},
                                {"", "very ", "really ", "extremely "},
                                {"confident", "sure", "certain"}>>, low),
                    IndicatorScore(confidence_indicators, low),
                    Dec(8, 10)),
            Dec(2, 10))

positive_indicators ==
    <<"satisfied", "happy", "pleased", "great", "excellent", "good", "helpful">>

negative_indicators ==
    <<"unsatisfied", "unhappy", "disappointed", "poor", "terrible", "bad",
      "unhelpful">>

\* pos_count / total_indicators when there is an indicator, else 0.5
text_satisfaction(pos_count, neg_count) ==
    IF pos_count + neg_count > 0
    THEN FDiv(FromInt(pos_count), FromInt(pos_count + neg_count))
    ELSE Dec(5, 10)

\* sum(aspect_scores.values()), from the k-th item on
RECURSIVE SumValues(_, _)
SumValues(dict_items, k) ==
    IF k > Len(dict_items) THEN 0
    ELSE dict_items[k].value + SumValues(dict_items, k + 1)

\* (sum(aspect_scores.values()) / len(aspect_scores) - 1) / 4
aspect_satisfaction(dict_items) ==
    FDiv(FSub(FDiv(FromInt(SumValues(dict_items, 1)), FromInt(Len(dict_items))),
              One),
         FromInt(4))

\* (text_satisfaction * 0.6) + (aspect_satisfaction * 0.4)
CombineSatisfaction(text_level, aspect_level) ==
    FAdd(FMul(text_level, Dec(6, 10)), FMul(aspect_level, Dec(4, 10)))

\* _calculate_satisfaction_level
calculate_satisfaction_level(low, aspect_scores) ==
    IF Truthy(aspect_scores)
    THEN CombineSatisfaction(
             text_satisfaction(CountIn(positive_indicators, low),
                               CountIn(negative_indicators, low)),
             aspect_satisfaction(aspect_scores.items))
    ELSE text_satisfaction(CountIn(positive_indicators, low),
                           CountIn(negative_indicators, low))

(***************************************************************************)
(* AdvancedEmotionAnalyzer: the frustration classification.                *)
(***************************************************************************)
\* matches[ftype] for the categories in dict order
TypeMatches(low) ==
    [k \in 1..Len(frustration_words) |-> CountIn(frustration_words[k].value, low)]

RECURSIVE SumInts(_, _)
SumInts(ints, k) == IF k > Len(ints) THEN 0 ELSE ints[k] + SumInts(ints, k + 1)

\* the position max(matches, key=matches.get) picks from position k on: the
\* first one whose count no other exceeds
RECURSIVE MaxKeyFrom(_, _)
MaxKeyFrom(matches, k) ==
    IF \A j \in 1..Len(matches) : matches[j] <= matches[k] THEN k
    ELSE MaxKeyFrom(matches, k + 1)

\* the rest of _determine_frustration_type once max_type is known
DominantType(matches, max_type) ==
    IF /\ matches[max_type] > 0
       /\ FGt(FromInt(SumInts(matches, 1)),
              FMul(FromInt(matches[max_type]), Dec(15, 10)))
    THEN "mixed"
    ELSE IF matches[max_type] > 0 THEN frustration_words[max_type].key
    ELSE "mixed"

\* _determine_frustration_type, from the counts
FrustrationTypeOf(matches) ==
    IF SumInts(matches, 1) = 0 THEN "mixed"
    ELSE DominantType(matches, MaxKeyFrom(matches, 1))

determine_frustration_type(low) == FrustrationTypeOf(TypeMatches(low))

\* _determine_frustration_intensity
determine_frustration_intensity(frustration_level) ==
    IF FLt(frustration_level, Dec(3, 10)) THEN "mild"
    ELSE IF FLt(frustration_level, Dec(6, 10)) THEN "moderate"
    ELSE IF FLt(frustration_level, Dec(85, 100)) THEN "severe"
    ELSE "critical"

(***************************************************************************)
(* AdvancedEmotionAnalyzer: what is read from historical_data.  An entry   *)
(* is a dict: a record that has the keys the entry has.                    *)
(***************************************************************************)
\* sorted(..., key=lambda x: x.get('timestamp', 0), reverse=True) is stable:
\* e goes behind the entries whose key is not smaller
RECURSIVE InsertDesc(_, _)
InsertDesc(sorted, e) ==
    IF Len(sorted) = 0 THEN <<e>>
    ELSE IF Get(Head(sorted), "timestamp", 0) >= Get(e, "timestamp", 0)
    THEN <<Head(sorted)>> \o InsertDesc(Tail(sorted), e)
    ELSE <<e>> \o sorted

RECURSIVE SortedDescFrom(_, _, _)
SortedDescFrom(entries, k, sorted) ==
    IF k > Len(entries) THEN sorted
    ELSE SortedDescFrom(entries, k + 1, InsertDesc(sorted, entries[k]))

\* sorted(historical_data, key=..., reverse=True)[:n]
recent_entries(historical_data, n) ==
    SubSeq(SortedDescFrom(historical_data.items, 1, <<>>), 1,
           Min(n, Len(historical_data.items)))

\* not historical_data or len(historical_data) < 2
Insufficient(historical_data) ==
    ~Truthy(historical_data) \/ Len(historical_data.items) < 2

\* the branches on diff = latest - mean of the others, with the labels of
\* the caller
DirectionOf(diff, latest, others, labels) ==
    IF FGt(diff, Dec(15, 100)) THEN labels[1]
    ELSE IF FLt(diff, FNeg(Dec(15, 100))) THEN labels[2]
    ELSE IF \E k \in 1..Len(others) :
                FGt(FAbs(FSub(latest, others[k])), Dec(25, 100))
    THEN labels[3]
    ELSE labels[4]

\* latest = values[0] against sum(values[1:]) / len(values[1:])
Direction(values, labels) ==
    IF Len(values) >= 2
    THEN DirectionOf(FSub(values[1],
                          FDiv(FSum(Tail(values)), FromInt(Len(values) - 1))),
                     values[1], Tail(values), labels)
    ELSE labels[4]

\* [entry.get('frustration_level', 0.5) for entry in recent_entries]
FrustrationLevels(recent) ==
    [k \in 1..Len(recent) |-> Get(recent[k], "frustration_level", Dec(5, 10))]

\* _determine_frustration_trend
determine_frustration_trend(historical_data) ==
    IF Insufficient(historical_data) THEN "stable"
    ELSE Direction(FrustrationLevels(recent_entries(historical_data, 3)),
                   <<"increasing", "decreasing", "spiking", "stable">>)

\* satisfaction - frustration of each recent entry
Valences(recent) ==
    [k \in 1..Len(recent) |->
        FSub(Get(recent[k], "satisfaction_level", Dec(5, 10)),
             Get(recent[k], "frustration_level", Dec(5, 10)))]

\* _determine_emotional_trajectory
determine_emotional_trajectory(historical_data) ==
    IF Insufficient(historical_data) THEN "neutral"
    ELSE Direction(Valences(recent_entries(historical_data, 3)),
                   <<"improving", "declining", "fluctuating", "neutral">>)

emotion_dimensions ==
    <<"frustration_level", "satisfaction_level", "emotional_temperature">>

\* abs(current - previous) of one dimension between entries i and i+1
Change(recent, i, dimension) ==
    FAbs(FSub(Get(recent[i], dimension, Dec(5, 10)),
              Get(recent[i + 1], dimension, Dec(5, 10))))

\* the changes list: for each consecutive pair, the three dimensions
Changes(recent) ==
    [k \in 1..(3 * (Len(recent) - 1)) |->
        Change(recent, ((k - 1) \div 3) + 1, emotion_dimensions[((k - 1) % 3) + 1])]

\* min(sum(changes) / len(changes) * 2.5, 1.0), 0.3 without changes
ScaledVolatility(changes) ==
    IF Len(changes) > 0
    THEN FMin(FMul(FDiv(FSum(changes), FromInt(Len(changes))), Dec(25, 10)), One)
    ELSE Dec(3, 10)

\* _calculate_emotional_volatility
calculate_emotional_volatility(historical_data) ==
    IF Insufficient(historical_data) THEN Dec(3, 10)
    ELSE ScaledVolatility(Changes(recent_entries(historical_data, 5)))

(***************************************************************************)
(* AdvancedEmotionAnalyzer: urgency and emotional temperature.             *)
(***************************************************************************)
\* _detect_urgency: the first level, in dict order, one of whose phrases is
\* in the text
RECURSIVE UrgencyFrom(_, _)
UrgencyFrom(low, k) ==
    IF k > Len(urgency_phrases) THEN "low"
    ELSE IF AnyIn(urgency_phrases[k].value, low) THEN urgency_phrases[k].key
    ELSE UrgencyFrom(low, k + 1)

detect_urgency(low) == UrgencyFrom(low, 1)

\* signals.append(name) under a condition
AppendIf(condition, name) == IF condition THEN <<name>> ELSE <<>>

\* _detect_urgency_signals
detect_urgency_signals(low) ==
    AppendIf(re_search(<<{"thinking", "considering"}, {" "}, {"", "of "},
                         {"dropping", "quitting", "leaving"}>>, low),
             "considering_dropping")
    \o AppendIf(re_search(<<{"missed", "missing", "late", "behind on"}, {" "},
                            {"deadline", "assignment", "submission", "work"}>>,
                          low),
                "missed_deadlines")
    \o AppendIf(re_search(<<{"need", "asking for", "requesting"}, {" help"}>>, low),
                "help_requests")
    \o AppendIf(re_search(<<{"can't", "cannot", "unable to"}, {" "},
                            {"continue", "proceed", "move forward", "progress"}>>,
                          low),
                "progress_blocked")
    \o AppendIf(re_search(<<{"deadline", "due date"}, {" "},
                            {"approaching", "coming up", "soon"}>>, low),
                "timeline_pressure")
    \o AppendIf(re_search(<<{"tried", "attempted"}, {" "},
                            {"multiple times", "several times", "many times"}>>,
                          low),
                "repeated_attempts")

\* urgency_mapping.get(urgency_level, "routine")
urgency_mapping(urgency_level) ==
    CASE urgency_level = "immediate" -> "within_hour"
      [] urgency_level = "critical" -> "within_hour"
      [] urgency_level = "high" -> "same_day"
      [] urgency_level = "medium" -> "within_week"
      [] urgency_level = "low" -> "routine"
      [] OTHER -> "routine"

\* the escalation by one level
Escalate(response_urgency) ==
    CASE response_urgency = "same_day" -> "within_hour"
      [] response_urgency = "within_week" -> "same_day"
      [] response_urgency = "routine" -> "within_week"
      [] OTHER -> response_urgency

\* _determine_response_urgency
determine_response_urgency(urgency_level, frustration_level) ==
    IF /\ FGt(frustration_level, Dec(8, 10))
       /\ urgency_mapping(urgency_level) # "within_hour"
    THEN Escalate(urgency_mapping(urgency_level))
    ELSE urgency_mapping(urgency_level)

hot_words ==
    <<"angry", "furious", "excited", "thrilled", "frustrated", "enraged",
      "anxious", "stressed", "panicked", "desperate", "urgent", "passionate">>

cold_words ==
    <<"calm", "detached", "indifferent", "bored", "tired", "exhausted",
      "apathetic", "disinterested", "resigned", "defeated", "numb">>

intensifiers ==
    <<"very", "extremely", "incredibly", "absolutely", "completely", "totally">>

\* hot_count / total_emotion_words, 0.5 without emotion words
base_temp(hot_count, cold_count) ==
    IF hot_count + cold_count = 0 THEN Dec(5, 10)
    ELSE FDiv(FromInt(hot_count), FromInt(hot_count + cold_count))

\* min(max(base_temp * (1.0 + (0.1 * intensifier_count)), 0.0), 1.0)
IntensifiedTemperature(base, intensifier_count) ==
    FMin(FMax(FMul(base, FAdd(One, FMul(Dec(1, 10), FromInt(intensifier_count)))),
              FZero),
         One)

\* the two boosts and the final min(temperature, 1.0)
BoostedTemperature(temperature, exclamation_count, upper_count, length) ==
    FMin(FAdd(FAdd(temperature,
                   FMin(FMul(FromInt(exclamation_count), Dec(5, 100)),
                        Dec(25, 100))),
              FMin(FMul(FDiv(FromInt(upper_count), FromInt(length)), Dec(5, 10)),
                   Dec(25, 100))),
         One)

\* _calculate_emotional_temperature
calculate_emotional_temperature(text, low) ==
    BoostedTemperature(
        IntensifiedTemperature(base_temp(CountIn(hot_words, low),
                                         CountIn(cold_words, low)),
                               CountIn(intensifiers, low)),
        CountCharFrom(text, "!", 1), CountUpperFrom(text, 1),
        IF Len(text) > 1 THEN Len(text) ELSE 1)

(***************************************************************************)
(* AdvancedEmotionAnalyzer: hidden dissatisfaction and politeness.         *)
(***************************************************************************)
\* pattern.split('|')[0].replace('(', '').replace(')', '').replace('r"', '')
pattern_name(source) ==
    Remove(Remove(Remove(SplitFirst(source, "|"), "("), ")"), "r\"")

\* the names appended by the loop over hidden_dissatisfaction_patterns, from
\* the k-th pattern on
RECURSIVE PatternSignalsFrom(_, _)
PatternSignalsFrom(low, k) ==
    IF k > Len(hidden_dissatisfaction_patterns) THEN <<>>
    ELSE AppendIf(re_search(hidden_dissatisfaction_patterns[k].parts, low),
                  pattern_name(hidden_dissatisfaction_patterns[k].source))
         \o PatternSignalsFrom(low, k + 1)

\* hidden_signals after the pattern loop and the four checks
HiddenSignals(low) ==
    PatternSignalsFrom(low, 1)
    \o AppendIf(re_search(<<{"good", "great", "nice"}, {" but"}>>, low),
                "praise_with_reservations")
    \o AppendIf(re_search(<<{"like", "enjoy"}, AnyChars,
                            {"however", "though", "but"}>>, low),
                "praise_with_reservations")
    \o AppendIf(re_search(<<{"somewhat", "kind of", "sort of"}, {" "},
                            {"good", "helpful", "useful"}>>, low),
                "faint_praise")
    \o AppendIf(re_search(<<{"I appreciate", "thank you for"}, {" "},
                            {"the effort", "trying", "attempting"}>>, low),
                "diplomatic_language")

\* confidence_adjustment
confidence_adjustment(satisfaction_level, hidden_dissatisfaction) ==
    IF FGt(satisfaction_level, Dec(7, 10)) /\ hidden_dissatisfaction
    THEN FNeg(Dec(3, 10))
    ELSE IF FLt(satisfaction_level, Dec(4, 10)) /\ hidden_dissatisfaction
    THEN Dec(2, 10)
    ELSE FZero

\* max(min(base_confidence + confidence_adjustment, 1.0), 0.0) with
\* base_confidence = min(len(hidden_signals) * 0.25, 0.75)
hidden_confidence(signal_count, satisfaction_level) ==
    FMax(FMin(FAdd(FMin(FMul(FromInt(signal_count), Dec(25, 100)), Dec(75, 100)),
                   confidence_adjustment(satisfaction_level, signal_count > 0)),
              One),
         FZero)

\* the returned tuple (hidden_dissatisfaction, hidden_confidence, hidden_signals)
HiddenResult(hidden_signals, satisfaction_level) ==
    <<Len(hidden_signals) > 0,
      hidden_confidence(Len(hidden_signals), satisfaction_level),
      hidden_signals>>

\* _analyze_hidden_dissatisfaction
analyze_hidden_dissatisfaction(low, satisfaction_level) ==
    HiddenResult(HiddenSignals(low), satisfaction_level)

polite_phrases ==
    <<"thank you", "thanks for", "appreciate", "grateful", "please",
      "if possible", "if you could", "would be nice", "understand that",
      "I know that", "I realize">>

\* mask_level += amount under a condition
AddIf(condition, level, amount) == IF condition THEN FAdd(level, amount) ELSE level

\* _calculate_politeness_mask: the phrases are looked up as written
calculate_politeness_mask(low, hidden_dissatisfaction) ==
    IF ~hidden_dissatisfaction THEN FZero
    ELSE FMin(AddIf(re_search(<<{"sorry to", "apologize for"}, {" "},
                                {"bother", "trouble", "disturb"}>>, low),
                    AddIf(re_search(<<{"very", "really", "truly", "so"}, {" "},
                                      {"grateful", "thankful", "appreciative"}>>,
                                    low),
                          FMin(FMul(FromInt(Len(ThoseFrom(polite_phrases, low, 1))),
                                    Dec(2, 10)),
                               Dec(8, 10)),
                          Dec(1, 10)),
                    Dec(15, 100)),
              One)

(***************************************************************************)
(* AdvancedEmotionAnalyzer: the advanced markers.                          *)
(***************************************************************************)
\* x in list
InList(x, list) == \E k \in 1..Len(list) : list[k] = x

\* the loop over a dict of phrase lists: a key is appended when one of its
\* phrases is in the text and the key is not yet in the list
RECURSIVE AppendPhrased(_, _, _, _)
AppendPhrased(detected, phrases, low, k) ==
    IF k > Len(phrases) THEN detected
    ELSE AppendPhrased(
             detected \o AppendIf(/\ AnyIn(phrases[k].value, low)
                                  /\ ~InList(phrases[k].key, detected),
                                  phrases[k].key),
             phrases, low, k + 1)

emotion_phrases ==
    << [key |-> "helplessness",
        value |-> <<"can't do this", "beyond me", "impossible for me",
                    "no way I can">>],
       [key |-> "overwhelm",
        value |-> <<"too much", "overwhelming", "drowning in", "can't keep up",
                    "too difficult">>],
       [key |-> "isolation",
        value |-> <<"all alone", "no one helps", "no support", "by myself",
                    "no one responds">>],
       [key |-> "despair",
        value |-> <<"giving up", "no point", "useless to try", "hopeless",
                    "waste of time">>],
       [key |-> "anxiety",
        value |-> <<"anxious", "worried", "stressed", "panic", "fear", "dread">>] >>

\* _detect_dropout_risk_emotions
detect_dropout_risk_emotions(low) ==
    AppendPhrased(ThoseFrom(dropout_risk_emotions, low, 1), emotion_phrases, low, 1)

positive_phrases ==
    << [key |-> "hope",
        value |-> <<"hoping", "look forward to", "optimistic", "better next time">>],
       [key |-> "determination",
        value |-> <<"determined", "will try again", "not giving up",
                    "keep working">>],
       [key |-> "gratitude",
        value |-> <<"thankful", "appreciate", "grateful", "thanks for">>],
       [key |-> "confidence",
        value |-> <<"confident", "I can do this", "getting better at",
                    "improving">>],
       [key |-> "enthusiasm",
        value |-> <<"excited", "looking forward", "can't wait", "eager">>] >>

\* _detect_positive_recovery_indicators
detect_positive_recovery_indicators(low) ==
    AppendPhrased(ThoseFrom(positive_recovery_indicators, low, 1),
                  positive_phrases, low, 1)

trigger_patterns ==
    << [key |-> "deadline_pressure",
        value |-> << <<{"deadline"}>>, <<{"due date"}>>,
                     <<{"running out of time"}>>, <<{"not enough time"}>> >>],
       [key |-> "technical_issues",
        value |-> << <<{"website", "system", "platform"}, {" "},
                       {"doesn't work", "isn't working", "broken"}>>,
                     <<{"technical "}, {"issue", "problem", "error"}>> >>],
       [key |-> "content_difficulty",
        value |-> << <<{"too", "very"}, {" "}, {"difficult", "hard", "complex"}>>,
                     <<{"don't understand"}>>, <<{"confused by"}>> >>],
       [key |-> "lack_of_support",
        value |-> << <<{"no "}, {"help", "support", "response"}>>,
                     <<{"no one "}, {"answers", "responds"}>>,
                     <<{"waiting for "}, {"help", "response"}>> >>],
       [key |-> "peer_comparison",
        value |-> << <<{"everyone else "}, {"gets it", "understands"}>>,
                     <<{"falling behind"}>>, <<{"only one struggling"}>> >>],
       [key |-> "feedback_issues",
        value |-> << <<{"no", "unclear", "unhelpful"}, {" feedback"}>>,
                     <<{"don't know "}, {"how", "what"}, {" I'm doing wrong"}>> >>],
       [key |-> "workload_issues",
        value |-> << <<{"too "}, {"much", "many"}, {" "},
                       {"assignments", "tasks", "work"}>>,
                     <<{"workload is "}, {"overwhelming", "too much"}>> >>],
       [key |-> "instructor_issues",
        value |-> << <<{"instructor "}, {"doesn't", "isn't"}, {" "},
                       {"explain", "clear", "helpful"}>>,
                     <<{"teaching style"}>> >>] >>

\* _identify_emotional_triggers, from the k-th trigger on
RECURSIVE TriggersFrom(_, _)
TriggersFrom(low, k) ==
    IF k > Len(trigger_patterns) THEN <<>>
    ELSE AppendIf(AnySearch(trigger_patterns[k].value, low), trigger_patterns[k].key)
         \o TriggersFrom(low, k + 1)

identify_emotional_triggers(low) == TriggersFrom(low, 1)

(***************************************************************************)
(* AdvancedEmotionAnalyzer: the meta-emotional analysis.                   *)
(***************************************************************************)
\* _calculate_emotion_coherence
calculate_emotion_coherence(frustration, engagement, confidence, satisfaction) ==
    FAdd(FMul(FSub(One, FAbs(FSub(FSub(One, satisfaction), frustration))),
              Dec(6, 10)),
         FMul(FSub(One, FAbs(FSub(engagement, confidence))), Dec(4, 10)))

authentic_markers ==
    << <<{"honestly"}>>, <<{"to be honest"}>>, <<{"frankly"}>>,
       <<{"to tell the truth"}>>,
       <<{"I "}, {"really", "truly"}, {" "}, {"feel", "think", "believe"}>>,
       <<{"I'm not going to lie"}>> >>

mixed_message_patterns ==
    << <<{"good", "great", "excellent"}, AnyChars, {"but", "however", "though"}>>,
       <<{"like", "enjoy"}, AnyChars, {"but", "however", "though"}>>,
       <<{"not complaining", "don't want to complain"}, AnyChars,
         {"but", "however", "though"}>> >>

\* _calculate_sentiment_authenticity: 0.8, less 0.3, plus 0.1, less 0.15,
\* each under its condition, then max(min(authenticity, 1.0), 0.0)
calculate_sentiment_authenticity(low, hidden_dissatisfaction) ==
    FMax(FMin(AddIf(AnySearch(mixed_message_patterns, low),
                    AddIf(AnySearch(authentic_markers, low),
                          AddIf(hidden_dissatisfaction, Dec(8, 10),
                                FNeg(Dec(3, 10))),
                          Dec(1, 10)),
                    FNeg(Dec(15, 100))),
              One),
         FZero)

emotion_words ==
    <<"happy", "sad", "angry", "frustrated", "confused", "anxious", "excited",
      "bored", "interested", "confident", "worried", "overwhelmed", "satisfied",
      "disappointed", "hopeful", "discouraged", "grateful", "annoyed", "proud">>

positive_emotions ==
    <<"happy", "excited", "interested", "confident", "satisfied", "hopeful",
      "grateful", "proud">>

negative_emotions ==
    <<"sad", "angry", "frustrated", "confused", "anxious", "bored", "worried",
      "overwhelmed", "disappointed", "discouraged", "annoyed">>

mixed_feelings_patterns ==
    << <<{"mixed feelings"}>>, <<{"conflicted"}>>, <<{"torn"}>>,
       <<{"on one hand"}, AnyChars, {"on the other"}>>,
       <<{"part of me"}, AnyChars, {"another part"}>>,
       <<{"both happy and"}>>, <<{"both frustrated and"}>> >>

\* the branches of _determine_emotional_complexity
ComplexityOf(emotion_count, has_contradiction, has_explicit_conflict) ==
    IF has_explicit_conflict \/ (has_contradiction /\ emotion_count >= 3)
    THEN "conflicted"
    ELSE IF emotion_count >= 4 \/ (has_contradiction /\ emotion_count >= 2)
    THEN "complex"
    ELSE IF emotion_count >= 2 THEN "mixed"
    ELSE "simple"

\* _determine_emotional_complexity
determine_emotional_complexity(low) ==
    ComplexityOf(Len(ThoseFrom(emotion_words, low, 1)),
                 AnyIn(positive_emotions, low) /\ AnyIn(negative_emotions, low),
                 AnySearch(mixed_feelings_patterns, low))

(***************************************************************************)
(* AdvancedEmotionAnalyzer.analyze_text.                                   *)
(***************************************************************************)
\* the EmotionProfile built from the values computed before it
EmotionProfile(text, low, historical_data, frustration_level, engagement_level, confidence_level, satisfaction_level, urgency_level, hidden) ==
    [frustration_level |-> frustration_level,
     engagement_level |-> engagement_level,
     confidence_level |-> confidence_level,
     satisfaction_level |-> satisfaction_level,
     frustration_type |-> determine_frustration_type(low),
     frustration_intensity |-> determine_frustration_intensity(frustration_level),
     frustration_trend |-> determine_frustration_trend(historical_data),
     urgency_level |-> urgency_level,
     urgency_signals |-> detect_urgency_signals(low),
     response_urgency |->
         determine_response_urgency(urgency_level, frustration_level),
     emotional_temperature |-> calculate_emotional_temperature(text, low),
     emotional_volatility |-> calculate_emotional_volatility(historical_data),
     emotional_trajectory |-> determine_emotional_trajectory(historical_data),
     hidden_dissatisfaction_flag |-> hidden[1],
     hidden_dissatisfaction_confidence |-> hidden[2],
     hidden_signals |-> hidden[3],
     politeness_mask_level |-> calculate_politeness_mask(low, hidden[1]),
     dropout_risk_emotions |-> detect_dropout_risk_emotions(low),
     positive_recovery_indicators |-> detect_positive_recovery_indicators(low),
     emotional_triggers |-> identify_emotional_triggers(low),
     emotion_coherence |->
         calculate_emotion_coherence(frustration_level, engagement_level,
                                     confidence_level, satisfaction_level),
     sentiment_authenticity |-> calculate_sentiment_authenticity(low, hidden[1]),
     emotional_complexity |-> determine_emotional_complexity(low)]

\* analyze_text once satisfaction_level is known
AnalyzeSatisfied(text, low, historical_data, satisfaction_level) ==
    EmotionProfile(text, low, historical_data, detect_frustration_level(low),
                   detect_engagement_level(low), detect_confidence_level(low),
                   satisfaction_level, detect_urgency(low),
                   analyze_hidden_dissatisfaction(low, satisfaction_level))

\* analyze_text once text.lower() is known
AnalyzeLowered(text, low, aspect_scores, historical_data) ==
    AnalyzeSatisfied(text, low, historical_data,
                     calculate_satisfaction_level(low, aspect_scores))

analyze_text(text, aspect_scores, historical_data) ==
    AnalyzeLowered(text, Lower(text), aspect_scores, historical_data)

(***************************************************************************)
(* analyze_text as a state machine: the calls a caller makes.              *)
(***************************************************************************)
Texts ==
    {"I'm extremely frustrated with the website, it keeps crashing, this is urgent!",
     "The course is fine I guess, somewhat helpful, probably just me",
     "I'm extremely frustrated with the LMS, it's very difficult to navigate.",
     "I need help immediately! I'm considering dropping the course.",
     "feeling really upset, this is terrible and unhelpful",
     "The lectures are GREAT but I like it though",
     "I am confident and excited, thanks for the help",
     "",
     "   "}

\* no dict, the empty dict, scores on the 1-5 scale and scores off the scale
AspectScores ==
    {None,
     List(<<>>),
     List(<<[key |-> "content", value |-> 4], [key |-> "instructor", value |-> 5]>>),
     List(<<[key |-> "content", value |-> 1]>>),
     List(<<[key |-> "content", value |-> 10]>>),
     List(<<[key |-> "content", value |-> 0]>>)}

\* a history entry
Entry(timestamp, frustration, satisfaction, temperature) ==
    [timestamp |-> timestamp, frustration_level |-> frustration,
     satisfaction_level |-> satisfaction, emotional_temperature |-> temperature]

\* no list, the empty list, one entry, entries in and out of timestamp order
\* and entries that carry a week number but no timestamp
Histories ==
    {None,
     List(<<>>),
     List(<<Entry(1, Dec(3, 10), Dec(5, 10), Dec(5, 10))>>),
     List(<<Entry(1, Dec(3, 10), Dec(6, 10), Dec(4, 10)),
            Entry(2, Dec(5, 10), Dec(5, 10), Dec(5, 10)),
            Entry(3, Dec(7, 10), Dec(4, 10), Dec(9, 10))>>),
     List(<<Entry(3, Dec(5, 10), Dec(9, 10), Dec(2, 10)),
            Entry(1, Dec(1, 10), Dec(5, 10), Dec(9, 10)),
            Entry(2, Dec(9, 10), Dec(1, 10), Dec(1, 10))>>),
     List(<<[week_number |-> 1, frustration_level |-> Dec(3, 10)],
            [week_number |-> 2, frustration_level |-> Dec(5, 10)],
            [week_number |-> 3, frustration_level |-> Dec(7, 10)]>>)}

\* the caller's list after historical_data.sort(key=..., reverse=True)
HistoryAfterSort(historical_data) ==
    IF Insufficient(historical_data) THEN historical_data
    ELSE List(SortedDescFrom(historical_data.items, 1, <<>>))

\* the caller's list once a reader of the history has taken its recent
\* entries: sorted() builds a new list and leaves historical_data as it was
HistoryAfterSorted(historical_data) == historical_data

\* one call of analyze_text: the arguments, the profile it returns and the
\* caller's history as the call leaves it
AnalyzeText(text, aspect_scores, historical_data) ==
    /\ analysis = <<>>
    /\ analysis' = <<[text |-> text, aspect_scores |-> aspect_scores,
                      historical_data |-> historical_data,
                      profile |-> analyze_text(text, aspect_scores,
                                               historical_data),
                      caller_history |-> HistoryAfterSorted(historical_data)]>>
    /\ UNCHANGED <<frustration_call, patternVars, batchVars, predictorVars, importVars, serviceVars, vectorCacheVars, threadVars>>

NextAnalyze ==
    \E text \in Texts, aspect_scores \in AspectScores, historical_data \in Histories :
        AnalyzeText(text, aspect_scores, historical_data)

SpecAnalyze == Init /\ [][NextAnalyze]_vars

(***************************************************************************)
(* _determine_frustration_type on texts made of frustration keywords: the  *)
(* first words of each category's list, separated by blanks.               *)
(***************************************************************************)
MaxHits == 5
MaxOtherHits == 2

\* the first n words of a list, each followed by a blank
RECURSIVE FirstWords(_, _)
FirstWords(words, n) ==
    IF n = 0 THEN "" ELSE FirstWords(words, n - 1) \o words[n] \o " "

\* a text with the first hits[k] keywords of category k
KeywordText(hits) ==
    FirstWords(frustration_words[1].value, hits[1])
    \o FirstWords(frustration_words[2].value, hits[2])
    \o FirstWords(frustration_words[3].value, hits[3])
    \o FirstWords(frustration_words[4].value, hits[4])

KeywordTexts ==
    {KeywordText(<<technical, content, support, pace>>) :
        technical \in 0..MaxHits, content \in 0..MaxOtherHits,
        support \in 0..MaxOtherHits, pace \in 0..MaxOtherHits}

DetermineFrustrationType(text) ==
    /\ frustration_call = <<>>
    /\ frustration_call' = <<[text |-> text,
                              matches |-> TypeMatches(Lower(text)),
                              frustration_type |-> determine_frustration_type(Lower(text))]>>
    /\ UNCHANGED <<analysis, patternVars, batchVars, predictorVars, importVars,
                   serviceVars, vectorCacheVars, threadVars>>

\* the call is made once more, on another text
NextCall ==
    /\ frustration_call # <<>>
    /\ frustration_call' = <<>>
    /\ UNCHANGED <<analysis, patternVars, batchVars, predictorVars, importVars,
                   serviceVars, vectorCacheVars, threadVars>>

NextFrustrationType ==
    \/ \E text \in KeywordTexts : DetermineFrustrationType(text)
    \/ NextCall

SpecFrustrationType == Init /\ [][NextFrustrationType]_vars

(***************************************************************************)
(* EmotionTrajectoryPredictor: numbers.  The predictor computes with       *)
(* numpy; np.polyfit is modelled as the least-squares fit it approximates, *)
(* so the predictor's numbers are exact rationals: [s, n, d] is the        *)
(* fraction (-1)^s * n / d of the naturals n and d, d > 0.                 *)
(***************************************************************************)
QMake(s, n, d) == [s |-> IF n = <<>> THEN 0 ELSE s, n |-> n, d |-> d]

\* the int k
QInt(k) == QMake(IF k < 0 THEN 1 ELSE 0, BFromInt(IF k < 0 THEN -k ELSE k), <<1>>)

\* the decimal literal n/d, n >= 0
QDec(n, d) == QMake(0, BFromInt(n), BFromInt(d))

QNeg(x) == QMake(1 - x.s, x.n, x.d)

\* the sum of the signed numerators nx and ny over d, c their comparison
QSignedSum(sx, nx, sy, ny, d, c) ==
    IF sx = sy THEN QMake(sx, BAdd(nx, ny), d)
    ELSE IF c >= 0 THEN QMake(sx, BSub(nx, ny), d)
    ELSE QMake(sy, BSub(ny, nx), d)

QSum(sx, nx, sy, ny, d) == QSignedSum(sx, nx, sy, ny, d, BCmp(nx, ny))

\* x + y: a common denominator is kept
QAdd(x, y) ==
    IF x.d = y.d THEN QSum(x.s, x.n, y.s, y.n, x.d)
    ELSE QSum(x.s, BMul(x.n, y.d), y.s, BMul(y.n, x.d), BMul(x.d, y.d))

QSub(x, y) == QAdd(x, QNeg(y))

QMul(x, y) ==
    QMake(IF x.s = y.s THEN 0 ELSE 1, BMul(x.n, y.n), BMul(x.d, y.d))

\* x / y for y # 0
QDiv(x, y) ==
    QMake(IF x.s = y.s THEN 0 ELSE 1, BMul(x.n, y.d), BMul(x.d, y.n))

\* -1, 0, 1 as x < 0, x = 0, x > 0
QSign(x) == IF x.n = <<>> THEN 0 ELSE IF x.s = 1 THEN -1 ELSE 1

\* -1, 0, 1 as x < y, x = y, x > y
QCmp(x, y) == QSign(QSub(x, y))

QLt(x, y) == QCmp(x, y) < 0
QLe(x, y) == QCmp(x, y) <= 0
QGt(x, y) == QCmp(x, y) > 0
QGe(x, y) == QCmp(x, y) >= 0
QEq(x, y) == QCmp(x, y) = 0

\* min(a, b) and max(a, b) of Python: a unless b is strictly smaller / larger
QMin(a, b) == IF QLt(b, a) THEN b ELSE a
QMax(a, b) == IF QGt(b, a) THEN b ELSE a

\* max(0.0, min(1.0, x)), np.clip(x, 0, 1)
Clip01(x) == QMax(QInt(0), QMin(QInt(1), x))

\* sum of values[i] * weeks[i]^k over the points from the i-th on
RECURSIVE PowerSum(_, _, _, _)
PowerSum(weeks, values, k, i) ==
    IF i > Len(weeks) THEN QInt(0)
    ELSE QAdd(QMul(values[i], QInt(weeks[i]^k)), PowerSum(weeks, values, k, i + 1))

\* the constant values 1, for the sums of the powers of the weeks alone
Ones(weeks) == [i \in 1..Len(weeks) |-> QInt(1)]

\* the determinant of a 3x3 matrix given by its rows
Det3(a1, a2, a3, b1, b2, b3, c1, c2, c3) ==
    QAdd(QSub(QMul(a1, QSub(QMul(b2, c3), QMul(b3, c2))),
              QMul(a2, QSub(QMul(b1, c3), QMul(b3, c1)))),
         QMul(a3, QSub(QMul(b1, c2), QMul(b2, c1))))

\* the line of least squares from the sums: <<slope, intercept>>, highest
\* power first as np.polyfit returns it
Fit1(s0, s1, s2, t0, t1, det) ==
    <<QDiv(QSub(QMul(s0, t1), QMul(s1, t0)), det),
      QDiv(QSub(QMul(s2, t0), QMul(s1, t1)), det)>>

\* np.polyfit(weeks, values, 1)
polyfit1(weeks, values) ==
    Fit1(QInt(Len(weeks)), PowerSum(weeks, Ones(weeks), 1, 1),
         PowerSum(weeks, Ones(weeks), 2, 1), PowerSum(weeks, values, 0, 1),
         PowerSum(weeks, values, 1, 1),
         QSub(QMul(QInt(Len(weeks)), PowerSum(weeks, Ones(weeks), 2, 1)),
              QMul(PowerSum(weeks, Ones(weeks), 1, 1),
                   PowerSum(weeks, Ones(weeks), 1, 1))))

\* the parabola of least squares from the sums, by Cramer's rule
Fit2(s0, s1, s2, s3, s4, t0, t1, t2, det) ==
    <<QDiv(Det3(t2, s3, s2, t1, s2, s1, t0, s1, s0), det),
      QDiv(Det3(s4, t2, s2, s3, t1, s1, s2, t0, s0), det),
      QDiv(Det3(s4, s3, t2, s3, s2, t1, s2, s1, t0), det)>>

Fit2Sums(s0, s1, s2, s3, s4, t0, t1, t2) ==
    Fit2(s0, s1, s2, s3, s4, t0, t1, t2,
         Det3(s4, s3, s2, s3, s2, s1, s2, s1, s0))

\* np.polyfit(weeks, values, 2)
polyfit2(weeks, values) ==
    Fit2Sums(QInt(Len(weeks)), PowerSum(weeks, Ones(weeks), 1, 1),
             PowerSum(weeks, Ones(weeks), 2, 1), PowerSum(weeks, Ones(weeks), 3, 1),
             PowerSum(weeks, Ones(weeks), 4, 1), PowerSum(weeks, values, 0, 1),
             PowerSum(weeks, values, 1, 1), PowerSum(weeks, values, 2, 1))

\* np.poly1d(coeffs)(x): Horner's scheme from the highest power, from the
\* k-th coefficient on with the value y so far
RECURSIVE PolyFrom(_, _, _, _)
PolyFrom(coeffs, x, k, y) ==
    IF k > Len(coeffs) THEN y
    ELSE PolyFrom(coeffs, x, k + 1, QAdd(QMul(y, x), coeffs[k]))

poly(coeffs, x) == PolyFrom(coeffs, x, 1, QInt(0))

(***************************************************************************)
(* EmotionTrajectoryPredictor: the curves.  An Optional value is None or   *)
(* Some(value).                                                            *)
(***************************************************************************)
Some(value) == [some |-> value]

\* max(weeks), from the i-th week on with the largest m so far
RECURSIVE MaxWeekFrom(_, _, _)
MaxWeekFrom(weeks, i, m) ==
    IF i > Len(weeks) THEN m
    ELSE MaxWeekFrom(weeks, i + 1, IF weeks[i] > m THEN weeks[i] ELSE m)

MaxWeek(weeks) == MaxWeekFrom(weeks, 2, weeks[1])

\* max(values) and min(values), from the i-th value on
RECURSIVE MaxFrom(_, _, _)
MaxFrom(values, i, m) ==
    IF i > Len(values) THEN m ELSE MaxFrom(values, i + 1, QMax(m, values[i]))

RECURSIVE MinFrom(_, _, _)
MinFrom(values, i, m) ==
    IF i > Len(values) THEN m ELSE MinFrom(values, i + 1, QMin(m, values[i]))

MaxOf(values) == MaxFrom(values, 2, values[1])
MinOf(values) == MinFrom(values, 2, values[1])

\* sum(values)
RECURSIVE QSumFrom(_, _)
QSumFrom(values, i) ==
    IF i > Len(values) THEN QInt(0) ELSE QAdd(values[i], QSumFrom(values, i + 1))

\* values[-3:]
Last3(values) == SubSeq(values, IF Len(values) > 3 THEN Len(values) - 2 ELSE 1,
                        Len(values))

\* np.clip(poly(next_weeks), 0, 1) for the three weeks after current_week
PredictedNext3(coeffs, current_week) ==
    [i \in 1..3 |-> Clip01(poly(coeffs, QInt(current_week + i)))]

\* the 'prediction' dict {week: float(pred)}
PredictionDict(predicted, current_week) ==
    Some([i \in 1..3 |-> [key |-> current_week + i, value |-> predicted[i]]])

\* A root (-b +- sqrt(discriminant)) / (2*a) of the quadratic formula is
\* vertex + sqrt(radicand) (upper) or vertex - sqrt(radicand) with
\* vertex = -b / (2*a) and radicand = discriminant / (2*a)^2.
Root(a, b, discriminant, upper) ==
    [vertex |-> QDiv(QNeg(b), QMul(QInt(2), a)),
     radicand |-> QDiv(discriminant, QMul(QMul(QInt(2), a), QMul(QInt(2), a))),
     upper |-> upper]

\* the sign of (distance +- sqrt(radicand)), from the sign of distance and
\* the comparison of distance^2 with radicand
SignOfSum(distance_sign, squares, upper) ==
    IF upper
    THEN (IF distance_sign >= 0 THEN (IF distance_sign = 0 /\ squares = 0 THEN 0 ELSE 1)
          ELSE -squares)
    ELSE (IF distance_sign <= 0 THEN (IF distance_sign = 0 /\ squares = 0 THEN 0 ELSE -1)
          ELSE squares)

\* -1, 0, 1 as root < x, root = x, root > x: squares compares
\* (vertex - x)^2 with the radicand
RootCmp(root, x) ==
    SignOfSum(QCmp(root.vertex, x),
              QCmp(QMul(QSub(root.vertex, x), QSub(root.vertex, x)), root.radicand),
              root.upper)

\* min(future_roots) for future_roots = [x for x in [x1, x2] if x > current_week]
MinFutureRoot(lower, upper, current_week) ==
    IF RootCmp(lower, QInt(current_week)) > 0 THEN Some(lower)
    ELSE IF RootCmp(upper, QInt(current_week)) > 0 THEN Some(upper)
    ELSE None

\* int((root - current_week) * 7) for a root after current_week: the largest
\* k with root >= current_week + k / 7, found bit by bit from k upwards; a
\* number of days of 2^15 or more is kept as 2^15 - 1
RECURSIVE WholeDays(_, _, _, _)
WholeDays(root, current_week, k, step) ==
    IF step = 0 THEN k
    ELSE IF RootCmp(root, QAdd(QInt(current_week),
                               QDiv(QInt(k + step), QInt(7)))) >= 0
    THEN WholeDays(root, current_week, k + step, step \div 2)
    ELSE WholeDays(root, current_week, k, step \div 2)

\* int((root - current_week) * 7) is k; when (root - current_week) * 7 is
\* exactly k, the rounding of the float root decides between k and k - 1
DaysOf(root, current_week, k) ==
    IF k > 0 /\ RootCmp(root, QAdd(QInt(current_week), QDiv(QInt(k), QInt(7)))) = 0
    THEN {Some(k - 1), Some(k)}
    ELSE {Some(k)}

\* the days to the crossing of a*x^2 + b*x + c = 0 after current_week, if
\* the discriminant is not negative and there is a future root
CrossingOf(root, current_week) ==
    IF IsNone(root) THEN {None}
    ELSE DaysOf(root.some, current_week, WholeDays(root.some, current_week, 0, 2^14))

Crossing(a, b, c, discriminant, current_week) ==
    IF QSign(discriminant) < 0 THEN {None}
    ELSE CrossingOf(MinFutureRoot(Root(a, b, discriminant, FALSE),
                                  Root(a, b, discriminant, TRUE), current_week),
                    current_week)

\* With a fitted a of exactly 0 the quadratic formula divides by 2*a: in
\* numpy a is then rounding noise and so is the root.  The whole days such a
\* root can give: none, or any number, of which one for each class of
\* urgency is kept.
IllConditioned == {None, Some(3), Some(7), Some(14), Some(1000)}

\* the possible values of the whole days to the crossing of the threshold
CrossingDays(coeffs, threshold, current_week) ==
    IF QSign(coeffs[1]) = 0 THEN IllConditioned
    ELSE Crossing(coeffs[1], coeffs[2], QSub(coeffs[3], threshold),
                  QSub(QMul(coeffs[2], coeffs[2]),
                       QMul(QMul(QInt(4), coeffs[1]), QSub(coeffs[3], threshold))),
                  current_week)

\* y - y_pred and y - np.mean(y), squared and summed, from the i-th point on
RECURSIVE SquaresFrom(_, _, _)
SquaresFrom(values, expected, i) ==
    IF i > Len(values) THEN QInt(0)
    ELSE QAdd(QMul(QSub(values[i], expected[i]), QSub(values[i], expected[i])),
              SquaresFrom(values, expected, i + 1))

\* np.mean(values)
Mean(values) == QDiv(QSumFrom(values, 1), QInt(Len(values)))

\* 1 - (ss_residual / ss_total), clipped, or 0.0 when ss_total == 0
RSquaredOf(ss_total, ss_residual) ==
    IF QSign(ss_total) = 0 THEN QInt(0)
    ELSE Clip01(QSub(QInt(1), QDiv(ss_residual, ss_total)))

\* _calculate_r_squared
calculate_r_squared(weeks, values, coeffs) ==
    RSquaredOf(SquaresFrom(values, [i \in 1..Len(values) |-> Mean(values)], 1),
               SquaresFrom(values,
                           [i \in 1..Len(values) |-> poly(coeffs, QInt(weeks[i]))], 1))

\* min(1.0, len(weeks) / 10)
data_points_factor(weeks) == QMin(QInt(1), QDiv(QInt(Len(weeks)), QInt(10)))

\* confidence = r_squared * 0.7 + data_points_factor * 0.3
FitConfidence(weeks, values, coeffs) ==
    QAdd(QMul(calculate_r_squared(weeks, values, coeffs), QDec(7, 10)),
         QMul(data_points_factor(weeks), QDec(3, 10)))

\* the trend of model_frustration_curve
FrustrationTrend(coeffs) ==
    IF QGt(coeffs[1], QDec(1, 100)) THEN "accelerating_increase"
    ELSE IF QLt(coeffs[1], QNeg(QDec(1, 100))) THEN "decelerating"
    ELSE IF QGt(coeffs[2], QDec(1, 100)) THEN "steady_increase"
    ELSE IF QLt(coeffs[2], QNeg(QDec(1, 100))) THEN "steady_decrease"
    ELSE "stable"

\* the possible days_to_threshold: a crossing is looked for only when
\* max(predicted_frustration) >= 0.8
FrustrationDays(coeffs, predicted, current_week) ==
    IF QGe(MaxOf(predicted), QDec(8, 10))
    THEN CrossingDays(coeffs, QDec(8, 10), current_week)
    ELSE {None}

\* model_frustration_curve once the polynomial is fitted
FrustrationCurve(weeks, values, coeffs, predicted, current_week) ==
    {[trend |-> FrustrationTrend(coeffs),
      prediction |-> PredictionDict(predicted, current_week),
      confidence |-> FitConfidence(weeks, values, coeffs),
      days_to_threshold |-> days] :
         days \in FrustrationDays(coeffs, predicted, current_week)}

FrustrationFitted(weeks, values, coeffs, current_week) ==
    FrustrationCurve(weeks, values, coeffs,
                     PredictedNext3(coeffs, current_week), current_week)

\* model_frustration_curve: the dicts it can return
model_frustration_curve(history) ==
    IF Len(history.weeks) < 3
    THEN {[trend |-> "insufficient_data", prediction |-> None,
           confidence |-> QInt(0), days_to_threshold |-> None]}
    ELSE FrustrationFitted(history.weeks, history.frustration_levels,
                           polyfit2(history.weeks, history.frustration_levels),
                           MaxWeek(history.weeks))

\* the dropout risk of predict_engagement_decline
DropoutRisk(predicted) ==
    IF QLt(MinOf(predicted), QDec(3, 10)) THEN "high"
    ELSE IF QLt(MinOf(predicted), QDec(5, 10)) THEN "medium"
    ELSE "low"

\* the possible weeks_to_disengagement, each kept by the whole days
\* int(weeks_to_disengagement * 7) it spans: a crossing is looked for only
\* when min(predicted_engagement) <= 0.3
DisengagementDays(coeffs, predicted, current_week) ==
    IF QLe(MinOf(predicted), QDec(3, 10))
    THEN CrossingDays(coeffs, QDec(3, 10), current_week)
    ELSE {None}

\* predict_engagement_decline once the polynomial is fitted
EngagementCurve(weeks, values, coeffs, predicted, current_week) ==
    {[trend |-> IF QSign(coeffs[2]) < 0 THEN "declining" ELSE "improving",
      prediction |-> PredictionDict(predicted, current_week),
      dropout_risk |-> DropoutRisk(predicted),
      confidence |-> FitConfidence(weeks, values, coeffs),
      weeks_to_disengagement |-> days] :
         days \in DisengagementDays(coeffs, predicted, current_week)}

EngagementFitted(weeks, values, coeffs, current_week) ==
    EngagementCurve(weeks, values, coeffs,
                    PredictedNext3(coeffs, current_week), current_week)

\* predict_engagement_decline: the dicts it can return
predict_engagement_decline(history) ==
    IF Len(history.weeks) < 3
    THEN {[trend |-> "insufficient_data", prediction |-> None,
           dropout_risk |-> "unknown", confidence |-> QInt(0),
           weeks_to_disengagement |-> None]}
    ELSE EngagementFitted(history.weeks, history.engagement_levels,
                          polyfit2(history.weeks, history.engagement_levels),
                          MaxWeek(history.weeks))

\* the consecutive weeks with hidden dissatisfaction, counted from flag i
\* back to the first week without it
RECURSIVE ConsecutiveHidden(_, _)
ConsecutiveHidden(hidden_flags, i) ==
    IF i < 1 \/ ~hidden_flags[i] THEN 0
    ELSE 1 + ConsecutiveHidden(hidden_flags, i - 1)

\* recent_frustration[2] > recent_frustration[0] over frustration_levels[-3:]
FrustrationIncreasing(recent) == QGt(recent[3], recent[1])

frustration_increasing(frustration_levels) ==
    Len(frustration_levels) >= 3 /\ FrustrationIncreasing(Last3(frustration_levels))

\* max - min < 0.2 and min > 0.5 over satisfaction_levels[-3:]
SatisfactionStable(recent) ==
    /\ QLt(QSub(MaxOf(recent), MinOf(recent)), QDec(2, 10))
    /\ QGt(MinOf(recent), QDec(5, 10))

satisfaction_stable(satisfaction_levels) ==
    Len(satisfaction_levels) >= 3 /\ SatisfactionStable(Last3(satisfaction_levels))

\* 0.1 * consecutive_hidden_weeks
Tenths(consecutive) == QMul(QDec(1, 10), QInt(consecutive))

\* data_points_factor * 0.5 + pattern_strength * 0.5
HiddenConfidence(weeks, consecutive) ==
    QAdd(QMul(data_points_factor(weeks), QDec(5, 10)),
         QMul(IF consecutive > 0 THEN QAdd(QDec(5, 10), Tenths(consecutive))
              ELSE QDec(5, 10),
              QDec(5, 10)))

Max(a, b) == IF a > b THEN a ELSE b

\* the risk of predict_hidden_dissatisfaction with its probability and days
HiddenRisk(weeks, consecutive, increasing, stable) ==
    IF consecutive >= 3 /\ increasing /\ stable
    THEN [risk |-> "high",
          explosion_probability |-> QMin(QDec(9, 10), QAdd(QDec(5, 10), Tenths(consecutive))),
          days_to_explosion |-> Some(Max(1, 14 - consecutive * 2)),
          confidence |-> HiddenConfidence(weeks, consecutive)]
    ELSE IF consecutive >= 2 /\ increasing
    THEN [risk |-> "medium",
          explosion_probability |-> QMin(QDec(7, 10), QAdd(QDec(3, 10), Tenths(consecutive))),
          days_to_explosion |-> Some(Max(3, 21 - consecutive * 2)),
          confidence |-> HiddenConfidence(weeks, consecutive)]
    ELSE IF consecutive >= 1
    THEN [risk |-> "low",
          explosion_probability |-> QMin(QDec(4, 10), QAdd(QDec(1, 10), Tenths(consecutive))),
          days_to_explosion |-> Some(Max(7, 28 - consecutive * 2)),
          confidence |-> HiddenConfidence(weeks, consecutive)]
    ELSE [risk |-> "minimal",
          explosion_probability |-> QDec(1, 10),
          days_to_explosion |-> None,
          confidence |-> HiddenConfidence(weeks, consecutive)]

\* predict_hidden_dissatisfaction
predict_hidden_dissatisfaction(history) ==
    IF Len(history.weeks) < 3
    THEN [risk |-> "insufficient_data", explosion_probability |-> QInt(0),
          days_to_explosion |-> None, confidence |-> QInt(0)]
    ELSE HiddenRisk(history.weeks,
                    ConsecutiveHidden(history.hidden_dissatisfaction_flags,
                                      Len(history.hidden_dissatisfaction_flags)),
                    frustration_increasing(history.frustration_levels),
                    satisfaction_stable(history.satisfaction_levels))

\* a variant of the default prediction with a frustration of 0.6
raised_emotion_prediction ==
    [frustration_level |-> QDec(6, 10), engagement_level |-> QDec(5, 10),
     confidence_level |-> QDec(5, 10), satisfaction_level |-> QDec(5, 10),
     emotional_temperature |-> QDec(5, 10)]

\* _default_emotion_prediction
default_emotion_prediction ==
    [frustration_level |-> QDec(5, 10), engagement_level |-> QDec(5, 10),
     confidence_level |-> QDec(5, 10), satisfaction_level |-> QDec(5, 10),
     emotional_temperature |-> QDec(5, 10)]

\* _predict_next_value
predict_next_value(weeks, values) ==
    IF Len(weeks) < 2
    THEN (IF Len(values) > 0 THEN values[Len(values)] ELSE QDec(5, 10))
    ELSE Clip01(poly(polyfit1(weeks, values), QInt(MaxWeek(weeks) + 1)))

\* _predict_polynomial
predict_polynomial(weeks, values, target_week) ==
    IF Len(weeks) < 3
    THEN Clip01(poly(polyfit1(weeks, values), QInt(target_week)))
    ELSE Clip01(poly(polyfit2(weeks, values), QInt(target_week)))

\* the dict of a horizon, with
\* temperature_pred = frustration_pred * 0.7 + (1 - engagement_pred) * 0.3
EmotionPrediction(frustration_pred, engagement_pred, confidence_pred, satisfaction_pred) ==
    [frustration_level |-> frustration_pred, engagement_level |-> engagement_pred,
     confidence_level |-> confidence_pred, satisfaction_level |-> satisfaction_pred,
     emotional_temperature |->
         QAdd(QMul(frustration_pred, QDec(7, 10)),
              QMul(QSub(QInt(1), engagement_pred), QDec(3, 10)))]

\* predict_next_week_emotions
predict_next_week_emotions(history) ==
    IF Len(history.weeks) < 2 THEN default_emotion_prediction
    ELSE EmotionPrediction(predict_next_value(history.weeks, history.frustration_levels),
                           predict_next_value(history.weeks, history.engagement_levels),
                           predict_next_value(history.weeks, history.confidence_levels),
                           predict_next_value(history.weeks, history.satisfaction_levels))

\* the four polynomial predictions of a horizon at target_week
PolynomialPrediction(weeks, history, target_week) ==
    EmotionPrediction(predict_polynomial(weeks, history.frustration_levels, target_week),
                      predict_polynomial(weeks, history.engagement_levels, target_week),
                      predict_polynomial(weeks, history.confidence_levels, target_week),
                      predict_polynomial(weeks, history.satisfaction_levels, target_week))

\* predict_two_week_emotions
predict_two_week_emotions(history) ==
    IF Len(history.weeks) < 3 THEN default_emotion_prediction
    ELSE PolynomialPrediction(history.weeks, history, MaxWeek(history.weeks) + 2)

\* the last three data points of a history
Recent(history) ==
    [weeks |-> Last3(history.weeks),
     frustration_levels |-> Last3(history.frustration_levels),
     engagement_levels |-> Last3(history.engagement_levels),
     confidence_levels |-> Last3(history.confidence_levels),
     satisfaction_levels |-> Last3(history.satisfaction_levels)]

\* predict_end_course_emotions, for end_week = 12
predict_end_course_emotions(history) ==
    IF Len(history.weeks) < 3 THEN default_emotion_prediction
    ELSE IF MaxWeek(history.weeks) >= 10
    THEN PolynomialPrediction(Last3(history.weeks), Recent(history), 12)
    ELSE PolynomialPrediction(history.weeks, history, 12)

(***************************************************************************)
(* EmotionTrajectoryPredictor: risk escalations and intervention windows.  *)
(***************************************************************************)
\* the risk level of predict_frustration_threshold
FrustrationRiskLevel(trend, days_to_threshold) ==
    IF trend = "insufficient_data" THEN "unknown"
    ELSE IF ~IsNone(days_to_threshold) /\ days_to_threshold.some <= 3 THEN "critical"
    ELSE IF ~IsNone(days_to_threshold) /\ days_to_threshold.some <= 7 THEN "high"
    ELSE IF ~IsNone(days_to_threshold) /\ days_to_threshold.some <= 14 THEN "medium"
    ELSE IF trend \in {"accelerating_increase", "steady_increase"} THEN "low"
    ELSE "minimal"

\* the intervention urgency of a risk level
InterventionUrgency(risk_level) ==
    IF risk_level = "critical" THEN "immediate"
    ELSE IF risk_level = "high" THEN "within_24_hours"
    ELSE IF risk_level = "medium" THEN "within_week"
    ELSE "routine"

\* predict_frustration_threshold
predict_frustration_threshold(frustration_trajectory) ==
    [risk_level |-> FrustrationRiskLevel(frustration_trajectory.trend,
                                         frustration_trajectory.days_to_threshold),
     days_to_threshold |-> frustration_trajectory.days_to_threshold,
     intervention_urgency |->
         InterventionUrgency(FrustrationRiskLevel(frustration_trajectory.trend,
                                                  frustration_trajectory.days_to_threshold)),
     confidence |-> frustration_trajectory.confidence]

\* the intervention type of predict_engagement_dropout
InterventionType(dropout_risk) ==
    IF dropout_risk = "high" THEN "intensive_support"
    ELSE IF dropout_risk = "medium" THEN "targeted_engagement"
    ELSE IF dropout_risk = "low" THEN "preventive_check_in"
    ELSE "routine_monitoring"

\* max(1, int(weeks_to_disengagement * 7 - 7)), weeks_to_disengagement
\* being kept by its whole days
DaysToIntervention(weeks_to_disengagement) ==
    IF IsNone(weeks_to_disengagement) THEN None
    ELSE Some(Max(1, weeks_to_disengagement.some - 7))

\* predict_engagement_dropout
predict_engagement_dropout(engagement_decay) ==
    [dropout_risk |-> engagement_decay.dropout_risk,
     weeks_to_disengagement |-> engagement_decay.weeks_to_disengagement,
     intervention_type |-> InterventionType(engagement_decay.dropout_risk),
     days_to_intervention |-> DaysToIntervention(engagement_decay.weeks_to_disengagement),
     confidence |-> engagement_decay.confidence]

\* the intervention approach of predict_dissatisfaction_explosion
InterventionApproach(risk) ==
    IF risk = "high" THEN "empathetic_outreach"
    ELSE IF risk = "medium" THEN "indirect_support"
    ELSE IF risk = "low" THEN "subtle_check_in"
    ELSE "routine_monitoring"

\* the intervention timing of predict_dissatisfaction_explosion
InterventionTiming(days_to_explosion) ==
    IF ~IsNone(days_to_explosion) /\ days_to_explosion.some <= 3 THEN "immediate"
    ELSE IF ~IsNone(days_to_explosion) /\ days_to_explosion.some <= 7 THEN "this_week"
    ELSE IF ~IsNone(days_to_explosion) THEN "next_week"
    ELSE "routine"

\* predict_dissatisfaction_explosion
predict_dissatisfaction_explosion(hidden_dissatisfaction) ==
    [risk |-> hidden_dissatisfaction.risk,
     explosion_probability |-> hidden_dissatisfaction.explosion_probability,
     days_to_explosion |-> hidden_dissatisfaction.days_to_explosion,
     intervention_approach |-> InterventionApproach(hidden_dissatisfaction.risk),
     intervention_timing |-> InterventionTiming(hidden_dissatisfaction.days_to_explosion),
     confidence |-> hidden_dissatisfaction.confidence]

\* _urgency_to_numeric of the predictor
urgency_rank(urgency) ==
    CASE urgency = "immediate" -> 0
      [] urgency = "within_24_hours" -> 1
      [] urgency \in {"this_week", "within_week"} -> 2
      [] urgency = "next_week" -> 3
      [] urgency = "routine" -> 4
      [] OTHER -> 5

Intervention(type, days, urgency, confidence) ==
    [type |-> type, days |-> days, urgency |-> urgency, confidence |-> confidence]

\* the urgent interventions in the order they are appended
FrustrationInterventions(frustration_threshold) ==
    IF ~IsNone(frustration_threshold.days_to_threshold)
       /\ frustration_threshold.days_to_threshold.some <= 7
    THEN <<Intervention("frustration_intervention",
                        frustration_threshold.days_to_threshold.some,
                        frustration_threshold.intervention_urgency,
                        frustration_threshold.confidence)>>
    ELSE <<>>

EngagementInterventions(engagement_dropout) ==
    IF ~IsNone(engagement_dropout.days_to_intervention)
    THEN <<Intervention("engagement_intervention",
                        engagement_dropout.days_to_intervention.some,
                        IF engagement_dropout.days_to_intervention.some <= 7
                        THEN "within_week" ELSE "routine",
                        engagement_dropout.confidence)>>
    ELSE <<>>

DissatisfactionInterventions(dissatisfaction_explosion) ==
    IF ~IsNone(dissatisfaction_explosion.days_to_explosion)
    THEN <<Intervention("dissatisfaction_intervention",
                        dissatisfaction_explosion.days_to_explosion.some,
                        dissatisfaction_explosion.intervention_timing,
                        dissatisfaction_explosion.confidence)>>
    ELSE <<>>

\* the sort key (_urgency_to_numeric(urgency), -days, -confidence) of x is
\* less than that of y
KeyLess(x, y) ==
    \/ urgency_rank(x.urgency) < urgency_rank(y.urgency)
    \/ /\ urgency_rank(x.urgency) = urgency_rank(y.urgency)
       /\ \/ x.days > y.days
          \/ x.days = y.days /\ QGt(x.confidence, y.confidence)

\* list.sort is stable: x goes before the first intervention its key is
\* less than
RECURSIVE InsertByKey(_, _)
InsertByKey(x, sorted) ==
    IF sorted = <<>> THEN <<x>>
    ELSE IF KeyLess(x, Head(sorted)) THEN <<x>> \o sorted
    ELSE <<Head(sorted)>> \o InsertByKey(x, Tail(sorted))

RECURSIVE SortedByKey(_, _)
SortedByKey(interventions, i) ==
    IF i = 0 THEN <<>>
    ELSE InsertByKey(interventions[i], SortedByKey(interventions, i - 1))

\* a window with its target_date, kept as the days after now
Window(type, timing, days_from_now, confidence) ==
    [type |-> type, timing |-> timing, days_from_now |-> days_from_now,
     confidence |-> confidence, target_date |-> [days_after_now |-> days_from_now]]

WindowOf(intervention) ==
    Window(intervention.type, intervention.urgency, intervention.days,
           intervention.confidence)

\* the intervention windows of the sorted urgent interventions
Windows(urgent_interventions) ==
    IF urgent_interventions = <<>>
    THEN [primary |-> Window("routine_check_in", "routine", 14, QDec(5, 10))]
    ELSE IF Len(urgent_interventions) > 1
    THEN [primary |-> WindowOf(urgent_interventions[1]),
          secondary |-> WindowOf(urgent_interventions[2])]
    ELSE [primary |-> WindowOf(urgent_interventions[1])]

UrgentInterventions(interventions) == SortedByKey(interventions, Len(interventions))

\* find_intervention_windows
find_intervention_windows(emotion_predictions, risk_escalations) ==
    Windows(UrgentInterventions(
        FrustrationInterventions(risk_escalations.frustration_boiling_point)
        \o EngagementInterventions(risk_escalations.engagement_dropout_risk)
        \o DissatisfactionInterventions(risk_escalations.hidden_to_open_dissatisfaction)))

\* np.var: the mean of the squared distances to the mean
Variance(values) ==
    QDiv(SquaresFrom(values, [i \in 1..Len(values) |-> Mean(values)], 1),
         QInt(Len(values)))

\* 1.0 - min(1.0, (frustration_variance + engagement_variance) / 2)
consistency_factor(history) ==
    IF Len(history.weeks) > 1
    THEN QSub(QInt(1), QMin(QInt(1),
                            QDiv(QAdd(Variance(history.frustration_levels),
                                      Variance(history.engagement_levels)),
                                 QInt(2))))
    ELSE QSub(QInt(1), QMin(QInt(1), QDiv(QAdd(QInt(1), QInt(1)), QInt(2))))

\* max_week >= max(history.weeks) - 2 holds of max_week = max(history.weeks)
recency_factor(history) ==
    IF Len(history.weeks) >= 3 THEN QDec(9, 10) ELSE QDec(7, 10)

\* data_quality_factor * 0.4 + consistency_factor * 0.3 + recency_factor * 0.3
base_confidence(history) ==
    QAdd(QAdd(QMul(data_points_factor(history.weeks), QDec(4, 10)),
              QMul(consistency_factor(history), QDec(3, 10))),
         QMul(recency_factor(history), QDec(3, 10)))

ConfidenceScores(base) ==
    [next_week |-> QMin(QDec(95, 100), QMul(base, QDec(12, 10))),
     two_week |-> QMin(QDec(9, 10), QMul(base, QInt(1))),
     course_completion |-> QMin(QDec(8, 10), QMul(base, QDec(8, 10))),
     frustration_threshold |-> QMin(QDec(9, 10), QMul(base, QDec(11, 10))),
     engagement_dropout |-> QMin(QDec(85, 100), QMul(base, QInt(1))),
     dissatisfaction_explosion |-> QMin(QDec(8, 10), QMul(base, QDec(9, 10))),
     intervention_windows |-> QMin(QDec(85, 100), QMul(base, QInt(1))),
     overall |-> base]

\* calculate_prediction_confidence
calculate_prediction_confidence(history) == ConfidenceScores(base_confidence(history))

(***************************************************************************)
(* EmotionTrajectoryPredictor.predict_emotion_evolution on the history of  *)
(* a student.  The history is a StudentEmotionHistory, built one data      *)
(* point at a time from the weeks below, in any order.                     *)
(***************************************************************************)
MaxHistory == 4

\* a data point: the levels are given in tenths
DataPoint(week, frustration, engagement, confidence, satisfaction, hidden) ==
    [week |-> week, frustration_level |-> QDec(frustration, 10),
     engagement_level |-> QDec(engagement, 10),
     confidence_level |-> QDec(confidence, 10),
     satisfaction_level |-> QDec(satisfaction, 10),
     hidden_dissatisfaction |-> hidden]

DataPoints ==
    {DataPoint(1, 4, 3, 6, 8, TRUE), DataPoint(2, 7, 6, 2, 9, TRUE),
     DataPoint(3, 8, 7, 5, 8, TRUE), DataPoint(4, 1, 1, 5, 9, FALSE),
     DataPoint(10, 5, 5, 3, 9, TRUE)}

\* the lists of StudentEmotionHistory the predictor reads, with one more
\* data point
WithDataPoint(h, point) ==
    [weeks |-> Append(h.weeks, point.week),
     frustration_levels |-> Append(h.frustration_levels, point.frustration_level),
     engagement_levels |-> Append(h.engagement_levels, point.engagement_level),
     confidence_levels |-> Append(h.confidence_levels, point.confidence_level),
     satisfaction_levels |-> Append(h.satisfaction_levels, point.satisfaction_level),
     hidden_dissatisfaction_flags |->
         Append(h.hidden_dissatisfaction_flags, point.hidden_dissatisfaction)]

\* the week of a journey is one the history does not have yet
NewWeek(h, point) == \A i \in 1..Len(h.weeks) : h.weeks[i] # point.week

AppendDataPoint(point) ==
    /\ prediction = <<>>
    /\ Len(emotion_history.weeks) < MaxHistory
    /\ NewWeek(emotion_history, point)
    /\ emotion_history' = WithDataPoint(emotion_history, point)
    /\ UNCHANGED <<prediction, patternVars, batchVars, analyzerVars, importVars,
                   serviceVars, vectorCacheVars, threadVars>>

RiskEscalations(frustration_trajectory, engagement_decay, hidden_dissatisfaction_emergence) ==
    [frustration_boiling_point |-> predict_frustration_threshold(frustration_trajectory),
     engagement_dropout_risk |-> predict_engagement_dropout(engagement_decay),
     hidden_to_open_dissatisfaction |->
         predict_dissatisfaction_explosion(hidden_dissatisfaction_emergence)]

EmotionPredictions(student_emotion_history) ==
    [next_week |-> predict_next_week_emotions(student_emotion_history),
     two_week |-> predict_two_week_emotions(student_emotion_history),
     course_completion |-> predict_end_course_emotions(student_emotion_history)]

EmotionTrajectoryPrediction(emotion_predictions, risk_escalations, confidence_scores) ==
    [emotion_predictions |-> emotion_predictions,
     risk_escalations |-> risk_escalations,
     optimal_intervention_windows |->
         find_intervention_windows(emotion_predictions, risk_escalations),
     confidence_scores |-> confidence_scores]

\* predict_emotion_evolution for the curves the two fits return
predict_emotion_evolution(student_emotion_history, frustration_trajectory, engagement_decay) ==
    EmotionTrajectoryPrediction(
        EmotionPredictions(student_emotion_history),
        RiskEscalations(frustration_trajectory, engagement_decay,
                        predict_hidden_dissatisfaction(student_emotion_history)),
        calculate_prediction_confidence(student_emotion_history))

PredictEmotionEvolution ==
    /\ prediction = <<>>
    /\ \E frustration_trajectory \in model_frustration_curve(emotion_history),
          engagement_decay \in predict_engagement_decline(emotion_history) :
           prediction' = <<predict_emotion_evolution(emotion_history,
                                                     frustration_trajectory,
                                                     engagement_decay)>>
    /\ UNCHANGED <<emotion_history, patternVars, batchVars, analyzerVars,
                   importVars, serviceVars, vectorCacheVars, threadVars>>

NextPredict ==
    \/ \E point \in DataPoints : AppendDataPoint(point)
    \/ PredictEmotionEvolution

SpecPredict == Init /\ [][NextPredict]_vars

(***************************************************************************)
(* DataImporter: the import of a file of feedback rows.  A row is what     *)
(* csv.DictReader gives: a string for every column.  Of the columns of     *)
(* CSVDataRow the student, the week, the NPS score, the five aspect scores *)
(* and the comments are kept; the timestamp and the course are taken to be *)
(* well formed.                                                            *)
(***************************************************************************)
MaxRows == 3

\* str.strip() for blanks
RECURSIVE StripLeft(_)
StripLeft(str) ==
    IF Len(str) > 0 /\ SubSeq(str, 1, 1) = " " THEN StripLeft(Tail(str)) ELSE str

RECURSIVE StripRight(_)
StripRight(str) ==
    IF Len(str) > 0 /\ SubSeq(str, Len(str), Len(str)) = " "
    THEN StripRight(SubSeq(str, 1, Len(str) - 1))
    ELSE str

Strip(str) == StripRight(StripLeft(str))

\* None if v == '' else v, of the stripped value
Cleaned(v) == IF Strip(v) = "" THEN None ELSE Some(Strip(v))

Columns ==
    <<"student_id", "week_number", "nps_score", "lms_usability_score",
      "instructor_quality_score", "content_difficulty_score",
      "support_quality_score", "course_pace_score", "comments">>

AspectColumns ==
    {"lms_usability_score", "instructor_quality_score",
     "content_difficulty_score", "support_quality_score", "course_pace_score"}

\* cleaned_row of _process_data
cleaned_row(row) == [column \in DOMAIN row |-> Cleaned(row[column])]

\* the value of a decimal digit, -1 for any other character
DigitOf(c) ==
    CASE c = "0" -> 0 [] c = "1" -> 1 [] c = "2" -> 2 [] c = "3" -> 3
      [] c = "4" -> 4 [] c = "5" -> 5 [] c = "6" -> 6 [] c = "7" -> 7
      [] c = "8" -> 8 [] c = "9" -> 9 [] OTHER -> -1

\* the int a pydantic int field reads from a string of digits, None when
\* the string is no number
RECURSIVE IntFrom(_, _)
IntFrom(str, acc) ==
    IF Len(str) = 0 THEN Some(acc)
    ELSE IF DigitOf(SubSeq(str, 1, 1)) < 0 THEN None
    ELSE IntFrom(Tail(str), acc * 10 + DigitOf(SubSeq(str, 1, 1)))

\* an int field with Field(ge=low, le=high): the value, or None when the
\* field does not validate (it is missing, is no number or is out of range)
IntInRange(value, low, high) == ~IsNone(value) /\ value.some >= low /\ value.some <= high

\* the int of an int field, None when the field is missing or no number
IntOf(v) == IF IsNone(v) THEN None ELSE IntFrom(v.some, 0)

IntField(v, low, high) ==
    IF IntInRange(IntOf(v), low, high) THEN IntOf(v) ELSE None

\* CSVDataRow(**cleaned_row) validates
Validates(cleaned) ==
    /\ ~IsNone(cleaned.student_id)
    /\ ~IsNone(IntOf(cleaned.week_number))
    /\ ~IsNone(IntField(cleaned.nps_score, 0, 10))
    /\ \A column \in AspectColumns : ~IsNone(IntField(cleaned[column], 1, 5))

\* the validated CSVDataRow
CSVDataRow(cleaned) ==
    [student_id |-> cleaned.student_id.some,
     week_number |-> IntOf(cleaned.week_number).some,
     nps_score |-> IntField(cleaned.nps_score, 0, 10).some,
     lms_usability_score |-> IntField(cleaned.lms_usability_score, 1, 5).some,
     instructor_quality_score |-> IntField(cleaned.instructor_quality_score, 1, 5).some,
     content_difficulty_score |-> IntField(cleaned.content_difficulty_score, 1, 5).some,
     support_quality_score |-> IntField(cleaned.support_quality_score, 1, 5).some,
     course_pace_score |-> IntField(cleaned.course_pace_score, 1, 5).some,
     comments |-> cleaned.comments]

\* emotion_data of _map_to_student_journey: the profile of the comments, the
\* optional emotion columns being absent, or {} without comments
emotion_data(row) ==
    IF ~IsNone(row.comments)
    THEN Some(analyze_text(row.comments.some, None, None))
    ELSE None

\* StudentJourneyCreate(**journey_data) validates: its float fields lie in
\* [0, 1]
JourneyFloatFields ==
    {"frustration_level", "engagement_level", "confidence_level",
     "satisfaction_level", "emotional_temperature", "emotional_volatility",
     "hidden_dissatisfaction_confidence", "politeness_mask_level",
     "emotion_coherence", "sentiment_authenticity"}

JourneyValidates(emotion) ==
    IsNone(emotion)
    \/ \A field \in JourneyFloatFields :
           FGe(emotion.some[field], FZero) /\ FLe(emotion.some[field], One)

StudentJourneyCreate(row, emotion) == [row |-> row, emotion_data |-> emotion]

\* _map_to_student_journey
map_to_student_journey(row) == StudentJourneyCreate(row, emotion_data(row))

\* a row of the file
RawRow(student_id, week_number, nps_score, lms_usability_score, content_difficulty_score, comments) ==
    [student_id |-> student_id, week_number |-> week_number,
     nps_score |-> nps_score, lms_usability_score |-> lms_usability_score,
     instructor_quality_score |-> "4",
     content_difficulty_score |-> content_difficulty_score,
     support_quality_score |-> " 5", course_pace_score |-> "3",
     comments |-> comments]

\* rows that validate, with and without comments; rows with an aspect score
\* above and below the 1-5 scale; a row without its NPS score
RawRows ==
    {RawRow("s1", "1", "9", "4", "2", "I need help immediately!"),
     RawRow("s2", "1", "10", "5 ", "1", ""),
     RawRow("s3", "2", "7", "6", "3", "feeling really upset"),
     RawRow("s4", "2", "3", "2", "0", ""),
     RawRow("s5", "3", " ", "3", "3", "")}

\* the columns of a cleaned row that are None
MissingIn(cleaned) == {column \in DOMAIN cleaned : IsNone(cleaned[column])}

\* self.missing_values[key] = self.missing_values.get(key, 0) + 1 for every
\* missing key; a count of 0 stands for a key the dict does not have
CountMissing(counts, cleaned) ==
    [column \in DOMAIN counts |->
        IF column \in MissingIn(cleaned) THEN counts[column] + 1 ELSE counts[column]]

NoMissingValues == [column \in {Columns[k] : k \in 1..Len(Columns)} |-> 0]

\* a variant of student_journeys.append that puts the journey first
PrependJourney(journeys, journey) == <<journey>> \o journeys

\* student_journeys.append(journey)
AppendJourney(journeys, journey) == Append(journeys, journey)

\* sum(self.missing_values.values())
RECURSIVE SumCounts(_, _)
SumCounts(counts, k) ==
    IF k = 0 THEN 0 ELSE counts[Columns[k]] + SumCounts(counts, k - 1)

\* _calculate_quality_metrics, CSVDataRow having 22 annotated fields
calculate_quality_metrics(rows, valid, invalid, missing, errors) ==
    [total_rows |-> rows, valid_rows |-> valid, invalid_rows |-> invalid,
     missing_values_count |-> missing, validation_errors |-> errors,
     completeness_score |->
         IF rows * 22 > 0
         THEN FSub(One, FDiv(FromInt(SumCounts(missing, Len(Columns))),
                             FromInt(rows * 22)))
         ELSE FZero,
     consistency_score |->
         IF rows > 0 THEN FDiv(FromInt(valid), FromInt(rows)) ELSE FZero,
     emotion_analysis_coverage |-> FZero]

\* import_data: _reset_counters, the rows loaded, processed_rows = len(raw_data)
ImportData(rows) ==
    /\ import_pc = "new"
    /\ import_pc' = "rows"
    /\ raw_data' = rows
    /\ row_index' = 0
    /\ student_journeys' = <<>>
    /\ validation_errors' = <<>>
    /\ processed_rows' = Len(rows)
    /\ valid_rows' = 0
    /\ invalid_rows' = 0
    /\ missing_values' = NoMissingValues
    /\ UNCHANGED <<quality_metrics, patternVars, batchVars, analyzerVars,
                   predictorVars, serviceVars, vectorCacheVars, threadVars>>

\* the row validates and maps to a journey that validates
RowSucceeds(cleaned) ==
    Validates(cleaned) /\ JourneyValidates(emotion_data(CSVDataRow(cleaned)))

\* one iteration of the loop of _process_data over a cleaned row: the journey
\* is appended, or the ValidationError is recorded and the loop continues
ProcessCleaned(cleaned) ==
    /\ missing_values' = CountMissing(missing_values, cleaned)
    /\ IF RowSucceeds(cleaned)
       THEN /\ student_journeys'
                  = AppendJourney(student_journeys,
                                  map_to_student_journey(CSVDataRow(cleaned)))
            /\ valid_rows' = valid_rows + 1
            /\ UNCHANGED <<validation_errors, invalid_rows, vectorCacheVars, threadVars>>
       ELSE /\ validation_errors'
                  = Append(validation_errors,
                           [row |-> processed_rows, error |-> "ValidationError"])
            /\ invalid_rows' = invalid_rows + 1
            /\ UNCHANGED <<student_journeys, valid_rows, vectorCacheVars, threadVars>>

ProcessRow ==
    /\ import_pc = "rows"
    /\ row_index < Len(raw_data)
    /\ row_index' = row_index + 1
    /\ ProcessCleaned(cleaned_row(raw_data[row_index + 1]))
    /\ UNCHANGED <<import_pc, raw_data, processed_rows, quality_metrics,
                   patternVars, batchVars, analyzerVars, predictorVars,
                   serviceVars, vectorCacheVars, threadVars>>

\* the loop is over: _calculate_quality_metrics and the return
ReturnJourneys ==
    /\ import_pc = "rows"
    /\ row_index = Len(raw_data)
    /\ import_pc' = "returned"
    /\ quality_metrics'
           = <<calculate_quality_metrics(processed_rows, valid_rows, invalid_rows,
                                         missing_values, validation_errors)>>
    /\ UNCHANGED <<raw_data, row_index, student_journeys, validation_errors,
                   processed_rows, valid_rows, invalid_rows, missing_values,
                   patternVars, batchVars, analyzerVars, predictorVars,
                   serviceVars, vectorCacheVars, threadVars>>

\* the lists of at most MaxRows rows
RECURSIVE RowLists(_)
RowLists(n) ==
    IF n = 0 THEN {<<>>}
    ELSE RowLists(n - 1)
         \cup {Append(rows, row) : rows \in {r \in RowLists(n - 1) : Len(r) = n - 1},
                                   row \in RawRows}

NextImport ==
    \/ \E rows \in RowLists(MaxRows) : ImportData(rows)
    \/ ProcessRow
    \/ ReturnJourneys

SpecImport == Init /\ [][NextImport]_vars

(***************************************************************************)
(* CacheService and the cached decorator on find_emotion_patterns.  A      *)
(* Python value that reaches the cache is a record with its class: a       *)
(* HistoricalPattern with its fields, a str with its text.                 *)
(***************************************************************************)
PyStr(text) == [class |-> "str", text |-> text]

\* HistoricalPattern(student_id=..., course_id=..., week_number=...,
\* emotion_pattern_matches=...): the other fields have their defaults
HistoricalPattern(student_id, course_id, week_number, emotion_pattern_matches) ==
    [class |-> "HistoricalPattern",
     student_id |-> student_id,
     course_id |-> course_id,
     week_number |-> week_number,
     emotion_pattern_matches |-> emotion_pattern_matches,
     successful_interventions |-> <<>>,
     emotion_recovery_probability |-> FZero,
     optimal_intervention_timing |-> <<>>]

\* f"{student_id}_{course_id}_{week_number}"
document_id(student_id, course_id, week_number) ==
    student_id \o "_" \o course_id \o "_" \o ToString(week_number)

\* GeminiVectorDBService.find_emotion_similar_students: an "error" dict when
\* the student's document is not stored, the student's profile and the
\* similar students otherwise
find_emotion_similar_students(stored, student_id, course_id, week_number) ==
    IF document_id(student_id, course_id, week_number) \notin stored
    THEN [error |-> "Student emotion profile not found"]
    ELSE [student_profile |-> document_id(student_id, course_id, week_number),
          similar_students |->
              stored \ {document_id(student_id, course_id, week_number)}]

\* the rest of find_emotion_patterns once the vector store has answered.
\* The answer is a dict: the loop over it takes its keys, which are str, so
\* pattern["emotion_profile"] raises TypeError in every round and no document
\* is built; the dict has none of the keys read at the end, so the three
\* other fields are set to the values they have already
PatternFromResult(student_id, course_id, week_number, result) ==
    IF "error" \in DOMAIN result
    THEN HistoricalPattern(student_id, course_id, week_number, <<>>)
    ELSE [HistoricalPattern(student_id, course_id, week_number, <<>>) EXCEPT
              !.successful_interventions =
                  Get(result, "successful_emotion_interventions", <<>>),
              !.emotion_recovery_probability =
                  Get(result, "emotion_recovery_probability", FZero),
              !.optimal_intervention_timing =
                  Get(result, "optimal_emotion_intervention_timing", <<>>)]

\* the body of find_emotion_patterns, for similar_patterns None or []
find_emotion_patterns(stored, student_id, course_id, week_number) ==
    PatternFromResult(student_id, course_id, week_number,
                      find_emotion_similar_students(stored, student_id, course_id,
                                                    week_number))

\* str(value) of a HistoricalPattern whose lists and dict are empty and whose
\* probability is 0.0, as they are in every pattern find_emotion_patterns
\* builds from the vector store
PatternStr(value) ==
    "student_id='" \o value.student_id \o "' course_id='" \o value.course_id
        \o "' week_number=" \o ToString(value.week_number)
        \o " emotion_pattern_matches=[] successful_interventions=[]"
        \o " emotion_recovery_probability=0.0 optimal_intervention_timing={}"

TypeError == [raised |-> "TypeError"]

JSONDecodeError == [raised |-> "JSONDecodeError"]

\* json.dumps(value): the JSON string literal of a str (one without a
\* character to escape); TypeError for an object of a class the encoder does
\* not know
json_dumps(value) ==
    IF value.class = "str" THEN [text |-> "\"" \o value.text \o "\""]
    ELSE TypeError

\* json.loads(text), for the documents json_dumps writes: a string literal
\* gives its str, a text that does not begin as a JSON value does raises
json_loads(text) ==
    IF /\ Len(text) >= 2
       /\ SubSeq(text, 1, 1) = "\""
       /\ SubSeq(text, Len(text), Len(text)) = "\""
    THEN PyStr(SubSeq(text, 2, Len(text) - 1))
    ELSE JSONDecodeError

\* the text CacheService.set hands to setex: json.dumps(value), or str(value)
\* when json.dumps raises TypeError
serialized_value(value) ==
    IF "raised" \in DOMAIN json_dumps(value) THEN PatternStr(value)
    ELSE json_dumps(value).text

\* redis.setex(key, ttl, text)
setex(store, key, text) ==
    [k \in DOMAIN store \cup {key} |-> IF k = key THEN text ELSE store[k]]

\* CacheService.set
CacheSet(store, key, value) == setex(store, key, serialized_value(value))

\* CacheService.get once redis.get has answered with a non-empty value:
\* json.loads(value), or value.decode('utf-8') when it raises JSONDecodeError
Loaded(value) ==
    IF "raised" \in DOMAIN json_loads(value) THEN PyStr(value)
    ELSE json_loads(value)

\* CacheService.get
CacheGet(store, key) ==
    IF key \in DOMAIN store /\ store[key] # "" THEN Loaded(store[key])
    ELSE None

\* repr of the similar_patterns argument
ReprPatterns(similar_patterns) ==
    IF IsNone(similar_patterns) THEN "None" ELSE "[]"

\* the key the cached wrapper builds; the hash of the argument text is
\* written as the text, "self" for the one service object
cache_key(student_id, course_id, week_number, similar_patterns) ==
    "emotion_patterns:find_emotion_patterns:(self, '" \o student_id \o "', '"
        \o course_id \o "', " \o ToString(week_number) \o ", "
        \o ReprPatterns(similar_patterns) \o ")[]"

(***************************************************************************)
(* The pattern cache as a state machine: calls of find_emotion_patterns,   *)
(* CacheService.flush and store_student_emotion_vector.                    *)
(***************************************************************************)
StudentIds == {"s1", "s2"}

CourseIds == {"c1"}

WeekNumbers == {1}

SimilarPatterns == {None, List(<<>>)}

\* what the caller of find_emotion_patterns observes
PatternCall(student_id, course_id, week_number, similar_patterns, returned, from_cache) ==
    [student_id |-> student_id, course_id |-> course_id,
     week_number |-> week_number, similar_patterns |-> similar_patterns,
     stored_data |-> vector_db, returned |-> returned,
     from_cache |-> from_cache]

\* the wrapper finds the key: cached_result is returned
CacheHit(student_id, course_id, week_number, similar_patterns, cache_key_) ==
    /\ ~IsNone(CacheGet(redis, cache_key_))
    /\ found_patterns' =
           <<PatternCall(student_id, course_id, week_number, similar_patterns,
                         CacheGet(redis, cache_key_), TRUE)>>
    /\ UNCHANGED redis

\* the wrapper does not find the key: the function runs and its result is
\* stored and returned
CacheMiss(student_id, course_id, week_number, similar_patterns, cache_key_, result) ==
    /\ IsNone(CacheGet(redis, cache_key_))
    /\ redis' = CacheSet(redis, cache_key_, result)
    /\ found_patterns' =
           <<PatternCall(student_id, course_id, week_number, similar_patterns,
                         result, FALSE)>>

\* one call of the cached find_emotion_patterns
FindEmotionPatterns(student_id, course_id, week_number, similar_patterns) ==
    /\ \/ CacheHit(student_id, course_id, week_number, similar_patterns,
                   cache_key(student_id, course_id, week_number,
                             similar_patterns))
       \/ CacheMiss(student_id, course_id, week_number, similar_patterns,
                    cache_key(student_id, course_id, week_number,
                              similar_patterns),
                    find_emotion_patterns(vector_db, student_id, course_id,
                                          week_number))
    /\ UNCHANGED <<vector_db, predicted_outcomes, patternVars, batchVars,
                   analyzerVars, predictorVars, importVars, vectorCacheVars, threadVars>>

\* CacheService.flush
Flush ==
    /\ DOMAIN redis # {}
    /\ redis' = [key \in {} |-> ""]
    /\ UNCHANGED <<vector_db, found_patterns, predicted_outcomes, patternVars,
                   batchVars, analyzerVars, predictorVars, importVars, vectorCacheVars, threadVars>>

\* the keys invalidate_cache deletes: those matching "emotion_patterns:*"
Invalidated(store) ==
    [key \in {k \in DOMAIN store : ~StartsAt(k, 1, "emotion_patterns:")} |->
        store[key]]

\* store_student_emotion_vector: the document is stored, then the cache
\* entries of find_emotion_patterns are deleted
StoreStudentEmotionVector(student_id, course_id, week_number) ==
    /\ document_id(student_id, course_id, week_number) \notin vector_db
    /\ vector_db' = vector_db \cup {document_id(student_id, course_id, week_number)}
    /\ redis' = Invalidated(redis)
    /\ UNCHANGED <<found_patterns, predicted_outcomes, patternVars, batchVars,
                   analyzerVars, predictorVars, importVars, vectorCacheVars, threadVars>>

NextCache ==
    \/ \E student_id \in StudentIds, course_id \in CourseIds,
          week_number \in WeekNumbers, similar_patterns \in SimilarPatterns :
           FindEmotionPatterns(student_id, course_id, week_number,
                               similar_patterns)
    \/ Flush
    \/ \E student_id \in StudentIds, course_id \in CourseIds,
          week_number \in WeekNumbers :
           StoreStudentEmotionVector(student_id, course_id, week_number)

SpecCache == Init /\ [][NextCache]_vars

(***************************************************************************)
(* HistoricalPatternService._predict_outcomes_from_patterns.  The metadata *)
(* of a pattern is a dict with the keys it may have: None for a key it     *)
(* does not have, Some(value) for one it has.  As in _cluster_patterns, a  *)
(* cluster's "patterns" are indices of the list of pattern signatures.     *)
(***************************************************************************)
\* "completion_status" in metadata and
\* metadata["completion_status"].startswith("dropped")
Dropped(metadata) ==
    /\ ~IsNone(metadata.completion_status)
    /\ StartsAt(metadata.completion_status.some, 1, "dropped")

\* cluster_dropout_risk after the first k patterns: 1.0 added for each
\* pattern that dropped
RECURSIVE DroppedCount(_, _, _)
DroppedCount(input, members, k) ==
    IF k = 0 THEN 0
    ELSE DroppedCount(input, members, k - 1)
             + (IF Dropped(input[members[k]].metadata) THEN 1 ELSE 0)

\* cluster_dropout_risk /= len(cluster["patterns"])
cluster_dropout_risk(input, cluster) ==
    FDiv(FromInt(DroppedCount(input, cluster.patterns, Len(cluster.patterns))),
         FromInt(Len(cluster.patterns)))

\* weight = len(cluster["patterns"]) * cluster["avg_similarity"]
cluster_weight(cluster) ==
    FMul(FromInt(Len(cluster.patterns)), cluster.avg_similarity)

\* total_weight after the first k clusters
RECURSIVE TotalWeight(_, _)
TotalWeight(clusters, k) ==
    IF k = 0 THEN FZero
    ELSE FAdd(TotalWeight(clusters, k - 1), cluster_weight(clusters[k]))

\* dropout_risk after the first k clusters
RECURSIVE WeightedRisk(_, _, _)
WeightedRisk(input, clusters, k) ==
    IF k = 0 THEN FZero
    ELSE FAdd(WeightedRisk(input, clusters, k - 1),
              FMul(cluster_dropout_risk(input, clusters[k]),
                   cluster_weight(clusters[k])))

\* a variant of the normalisation that leaves the weighted sum as it is
Unnormalized(dropout_risk, total_weight) == dropout_risk

\* if total_weight > 0: dropout_risk /= total_weight
Normalized(dropout_risk, total_weight) ==
    IF FGt(total_weight, FZero) THEN FDiv(dropout_risk, total_weight)
    ELSE dropout_risk

\* the interventions appended that the list does not have yet
RECURSIVE AppendUnique(_, _, _)
AppendUnique(recommended, interventions, k) ==
    IF k > Len(interventions) THEN recommended
    ELSE AppendUnique(
             IF \E i \in 1..Len(recommended) : recommended[i] = interventions[k]
             THEN recommended
             ELSE Append(recommended, interventions[k]),
             interventions, k + 1)

\* cluster_interventions: the successful interventions of the patterns from
\* position k on that have them
RECURSIVE ClusterInterventions(_, _, _)
ClusterInterventions(input, members, k) ==
    IF k > Len(members) THEN <<>>
    ELSE (IF IsNone(input[members[k]].metadata.successful_interventions)
          THEN <<>>
          ELSE input[members[k]].metadata.successful_interventions.some)
             \o ClusterInterventions(input, members, k + 1)

\* recommended_interventions after the first k clusters
RECURSIVE RecommendedInterventions(_, _, _)
RecommendedInterventions(input, clusters, k) ==
    IF k = 0 THEN <<>>
    ELSE AppendUnique(RecommendedInterventions(input, clusters, k - 1),
                      ClusterInterventions(input, clusters[k].patterns, 1), 1)

\* the dict returned once dropout_risk is known
Outcomes(dropout_risk, recommended_interventions) ==
    [dropout_risk |-> dropout_risk,
     intervention_success_probability |-> FSub(One, dropout_risk),
     recommended_interventions |-> recommended_interventions]

\* _predict_outcomes_from_patterns: the empty dict for no cluster
predict_outcomes_from_patterns(input, clusters) ==
    IF Len(clusters) = 0 THEN <<>>
    ELSE Outcomes(Normalized(WeightedRisk(input, clusters, Len(clusters)),
                             TotalWeight(clusters, Len(clusters))),
                  RecommendedInterventions(input, clusters, Len(clusters)))

(***************************************************************************)
(* Outcome prediction as a state machine: the pattern signatures of        *)
(* recognize_historical_patterns are clustered and the outcomes predicted. *)
(***************************************************************************)
MaxMatches == 2

OutcomeProfiles ==
    { BaseProfile,
      [BaseProfile EXCEPT !.frustration_level = One,
                          !.satisfaction_level = FZero] }

OutcomeScores == {FZero, Dec(9, 10)}

\* an intervention dict of the metadata: its type and one other detail
InterventionDict(type, week) == [type |-> type, week |-> week]

OutcomeMetadata ==
    {[completion_status |-> None, successful_interventions |-> None],
     [completion_status |-> Some("dropped_week_3"),
      successful_interventions |-> None],
     [completion_status |-> Some("completed"),
      successful_interventions |->
          Some(<<InterventionDict("tutoring", 3), InterventionDict("tutoring", 3)>>)],
     [completion_status |-> Some("completed"),
      successful_interventions |-> Some(<<InterventionDict("tutoring", 5)>>)]}

\* the entries recognize_historical_patterns appends to pattern_signatures
PatternSignatures ==
    {[signature |-> generate_pattern_signature(p), similarity_score |-> score,
      metadata |-> metadata] :
        p \in OutcomeProfiles, score \in OutcomeScores,
        metadata \in OutcomeMetadata}

\* the lists of at most n pattern signatures
SignatureLists(n) ==
    UNION {[1..len -> PatternSignatures] : len \in 0..n}

\* what recognize_historical_patterns computes from its pattern signatures
Recognized(input, clusters) ==
    [pattern_matches |-> input,
     pattern_clusters |-> clusters,
     outcomes |-> predict_outcomes_from_patterns(input, clusters)]

PredictOutcomesFromPatterns(input) ==
    /\ predicted_outcomes = <<>>
    /\ predicted_outcomes' = <<Recognized(input, cluster_patterns(input))>>
    /\ UNCHANGED <<redis, vector_db, found_patterns, patternVars, batchVars,
                   analyzerVars, predictorVars, importVars, vectorCacheVars, threadVars>>

NextOutcomes ==
    \E input \in SignatureLists(MaxMatches) : PredictOutcomesFromPatterns(input)

SpecOutcomes == Init /\ [][NextOutcomes]_vars

(***************************************************************************)
(* VectorCache: the in-memory cache of embeddings.  A dict of embeddings   *)
(* or of metadata is the set of its keys; last_accessed is the sequence of *)
(* its items [key, time] in insertion order.  time_now is what time.time() *)
(* returns, in units of which ttl is the time to live.  max_cache_size and *)
(* ttl stand for the 1000 and 3600 of _initialize.                         *)
(***************************************************************************)
max_cache_size == 2
ttl == 1
MaxTime == 2
CacheKeys == {"k1", "k2", "k3"}

VectorCache(embeddings, queries, metadata, accessed) ==
    [document_embeddings |-> embeddings, query_embeddings |-> queries,
     document_metadata |-> metadata, last_accessed |-> accessed]

\* key in self.last_accessed
HasAccess(accessed, key) == \E i \in 1..Len(accessed) : accessed[i].key = key

\* self.last_accessed[key] = time.time(): an existing key keeps its place
Accessed(accessed, key, time) ==
    IF HasAccess(accessed, key)
    THEN [i \in 1..Len(accessed) |->
              IF accessed[i].key = key THEN [key |-> key, time |-> time]
              ELSE accessed[i]]
    ELSE Append(accessed, [key |-> key, time |-> time])

\* del self.last_accessed[key]
RECURSIVE WithoutKey(_, _)
WithoutKey(accessed, key) ==
    IF accessed = <<>> THEN <<>>
    ELSE IF Head(accessed).key = key THEN WithoutKey(Tail(accessed), key)
    ELSE <<Head(accessed)>> \o WithoutKey(Tail(accessed), key)

\* invalidate: the document embedding, the metadata and the access time of
\* doc_id are deleted
invalidate(cache, doc_id) ==
    VectorCache(cache.document_embeddings \ {doc_id}, cache.query_embeddings,
                cache.document_metadata \ {doc_id},
                WithoutKey(cache.last_accessed, doc_id))

\* for key in keys: self.invalidate(key), for the first n keys of the list
RECURSIVE InvalidateAll(_, _, _)
InvalidateAll(cache, keys, n) ==
    IF n = 0 \/ keys = <<>> THEN cache
    ELSE InvalidateAll(invalidate(cache, Head(keys).key), Tail(keys), n - 1)

\* [k for k, v in self.last_accessed.items() if current_time - v > self.ttl]
RECURSIVE expired_keys(_, _)
expired_keys(accessed, current_time) ==
    IF accessed = <<>> THEN <<>>
    ELSE IF current_time - Head(accessed).time > ttl
    THEN <<Head(accessed)>> \o expired_keys(Tail(accessed), current_time)
    ELSE expired_keys(Tail(accessed), current_time)

\* sorted(self.last_accessed.items(), key=lambda x: x[1]): a stable sort
RECURSIVE InsertByTime(_, _)
InsertByTime(sorted, item) ==
    IF sorted = <<>> THEN <<item>>
    ELSE IF item.time < Head(sorted).time THEN <<item>> \o sorted
    ELSE <<Head(sorted)>> \o InsertByTime(Tail(sorted), item)

RECURSIVE sorted_keys(_, _)
sorted_keys(accessed, n) ==
    IF n = 0 THEN <<>>
    ELSE InsertByTime(sorted_keys(accessed, n - 1), accessed[n])

\* max(1, int(0.1 * len(sorted_keys)))
num_to_remove(n) == IF n \div 10 > 1 THEN n \div 10 ELSE 1

\* the second half of _evict_if_needed
EvictOldest(cache) ==
    IF Cardinality(cache.document_embeddings) + Cardinality(cache.query_embeddings)
           >= max_cache_size
    THEN InvalidateAll(cache, sorted_keys(cache.last_accessed, Len(cache.last_accessed)),
                       num_to_remove(Len(cache.last_accessed)))
    ELSE cache

\* _evict_if_needed
evict_if_needed(cache, current_time) ==
    EvictOldest(InvalidateAll(cache, expired_keys(cache.last_accessed, current_time),
                              Len(cache.last_accessed)))

\* the cache as the instance holds it
TheCache ==
    VectorCache(document_embeddings, query_embeddings, document_metadata, last_accessed)

\* the instance's dicts become those of cache
Becomes(cache) ==
    /\ document_embeddings' = cache.document_embeddings
    /\ query_embeddings' = cache.query_embeddings
    /\ document_metadata' = cache.document_metadata
    /\ last_accessed' = cache.last_accessed

\* store_document_embedding once _evict_if_needed has run
StoredDocument(cache, doc_id, metadata, time) ==
    VectorCache(cache.document_embeddings \cup {doc_id}, cache.query_embeddings,
                IF metadata THEN cache.document_metadata \cup {doc_id}
                ELSE cache.document_metadata,
                Accessed(cache.last_accessed, doc_id, time))

\* store_document_embedding(doc_id, embedding, metadata): metadata tells
\* whether a non-empty dict is given
StoreDocumentEmbedding(doc_id, metadata) ==
    /\ Becomes(StoredDocument(evict_if_needed(TheCache, time_now), doc_id, metadata, time_now))
    /\ UNCHANGED <<time_now, patternVars, batchVars, analyzerVars, predictorVars, importVars, serviceVars, threadVars>>

StoredMetadata(cache, doc_id, time) ==
    VectorCache(cache.document_embeddings, cache.query_embeddings,
                cache.document_metadata \cup {doc_id},
                Accessed(cache.last_accessed, doc_id, time))

\* store_document_metadata(doc_id, metadata)
StoreDocumentMetadata(doc_id) ==
    /\ Becomes(StoredMetadata(evict_if_needed(TheCache, time_now), doc_id, time_now))
    /\ UNCHANGED <<time_now, patternVars, batchVars, analyzerVars, predictorVars, importVars, serviceVars, threadVars>>

StoredQuery(cache, query, time) ==
    VectorCache(cache.document_embeddings, cache.query_embeddings \cup {query},
                cache.document_metadata,
                Accessed(cache.last_accessed, query, time))

\* store_query_embedding(query, embedding)
StoreQueryEmbedding(query) ==
    /\ Becomes(StoredQuery(evict_if_needed(TheCache, time_now), query, time_now))
    /\ UNCHANGED <<time_now, patternVars, batchVars, analyzerVars, predictorVars, importVars, serviceVars, threadVars>>

\* get_document_embedding, get_query_embedding and get_document_metadata:
\* a hit in the dict asked sets the access time of the key
GetFrom(dict, key) ==
    /\ key \in dict
    /\ last_accessed' = Accessed(last_accessed, key, time_now)
    /\ UNCHANGED <<document_embeddings, query_embeddings, document_metadata, time_now, patternVars, batchVars, analyzerVars, predictorVars, importVars, serviceVars, threadVars>>

GetDocumentEmbedding(doc_id) == GetFrom(document_embeddings, doc_id)

GetQueryEmbedding(query) == GetFrom(query_embeddings, query)

GetDocumentMetadata(doc_id) == GetFrom(document_metadata, doc_id)

\* invalidate(doc_id), called on the instance
Invalidate(doc_id) ==
    /\ Becomes(invalidate(TheCache, doc_id))
    /\ UNCHANGED <<time_now, patternVars, batchVars, analyzerVars, predictorVars, importVars, serviceVars, threadVars>>

\* time.time() advances
TimePasses ==
    /\ time_now < MaxTime
    /\ time_now' = time_now + 1
    /\ UNCHANGED <<document_embeddings, query_embeddings, document_metadata, last_accessed, patternVars, batchVars, analyzerVars, predictorVars, importVars, serviceVars, threadVars>>

NextVectorCache ==
    \/ \E doc_id \in CacheKeys, metadata \in BOOLEAN : StoreDocumentEmbedding(doc_id, metadata)
    \/ \E doc_id \in CacheKeys : StoreDocumentMetadata(doc_id)
    \/ \E query \in CacheKeys : StoreQueryEmbedding(query)
    \/ \E doc_id \in CacheKeys : GetDocumentEmbedding(doc_id)
    \/ \E query \in CacheKeys : GetQueryEmbedding(query)
    \/ \E doc_id \in CacheKeys : GetDocumentMetadata(doc_id)
    \/ \E doc_id \in CacheKeys : Invalidate(doc_id)
    \/ TimePasses

SpecVectorCache == Init /\ [][NextVectorCache]_vars

(***************************************************************************)
(* The cached find_emotion_patterns in an executor thread.                 *)
(* get_recommended_interventions_batch hands process_student to a          *)
(* BatchProcessor, whose process_batch runs it with asyncio.run in the     *)
(* threads of a ThreadPoolExecutor and awaits them: while a thread is in   *)
(* the cached wrapper, the event loop runs other coroutines, among them    *)
(* store_student_emotion_vector under invalidate_cache.  The steps of the  *)
(* thread are the wrapper's calls: cache.get, the function, cache.set; the *)
(* steps of the store are the write of the document, redis.keys and        *)
(* redis.delete.                                                           *)
(***************************************************************************)
\* the call of the thread, at a place of the wrapper
Worker(pc, student_id, cache_key_, result, read_from) ==
    [pc |-> pc, student_id |-> student_id, cache_key |-> cache_key_,
     result |-> result, read_from |-> read_from]

\* what the wrapper returned, with the stored data at the time and the data
\* the returned value was computed from
Answer(cache_key_, returned, from_cache, source, storing) ==
    [cache_key |-> cache_key_, returned |-> returned, from_cache |-> from_cache,
     stored_data |-> vector_db, computed_from |-> source, storing |-> storing]

\* cached_result = cache.get(cache_key) finds the key: it is returned
WorkerHit(student_id, similar_patterns, cache_key_) ==
    /\ worker.pc = "idle"
    /\ ~IsNone(CacheGet(redis, cache_key_))
    /\ answered' = <<Answer(cache_key_, CacheGet(redis, cache_key_), TRUE,
                            computed_from[cache_key_], store_pc # "idle")>>
    /\ UNCHANGED <<worker, store_pc, invalidate_keys, computed_from, patternVars, batchVars, analyzerVars, predictorVars, importVars, serviceVars, vectorCacheVars>>

\* cached_result = cache.get(cache_key) is None: the function is called
WorkerMiss(student_id, similar_patterns, cache_key_) ==
    /\ worker.pc = "idle"
    /\ IsNone(CacheGet(redis, cache_key_))
    /\ worker' = Worker("call", student_id, cache_key_, None, {})
    /\ UNCHANGED <<store_pc, invalidate_keys, computed_from, answered, patternVars, batchVars, analyzerVars, predictorVars, importVars, serviceVars, vectorCacheVars>>

WorkerGet(student_id, similar_patterns) ==
    \/ WorkerHit(student_id, similar_patterns,
                 cache_key(student_id, "c1", 1, similar_patterns))
    \/ WorkerMiss(student_id, similar_patterns,
                  cache_key(student_id, "c1", 1, similar_patterns))

\* result = await func(*args, **kwargs): the vector store is read
WorkerCall ==
    /\ worker.pc = "call"
    /\ worker' = Worker("set", worker.student_id, worker.cache_key,
                        find_emotion_patterns(vector_db, worker.student_id, "c1", 1),
                        vector_db)
    /\ UNCHANGED <<store_pc, invalidate_keys, computed_from, answered, patternVars, batchVars, analyzerVars, predictorVars, importVars, serviceVars, vectorCacheVars>>

\* the entry of key is computed from source
ComputedFrom(sources, key, source) ==
    [k \in DOMAIN sources \cup {key} |-> IF k = key THEN source ELSE sources[k]]

\* cache.set(cache_key, result, ttl); return result
WorkerSet ==
    /\ worker.pc = "set"
    /\ redis' = CacheSet(redis, worker.cache_key, worker.result)
    /\ computed_from' = ComputedFrom(computed_from, worker.cache_key, worker.read_from)
    /\ answered' = <<Answer(worker.cache_key, worker.result, FALSE,
                            worker.read_from, store_pc # "idle")>>
    /\ worker' = [pc |-> "idle"]
    /\ UNCHANGED <<store_pc, invalidate_keys, vector_db, found_patterns, predicted_outcomes, patternVars, batchVars, analyzerVars, predictorVars, importVars, vectorCacheVars>>

\* result = await func(*args, **kwargs) of invalidate_cache: the body of
\* store_student_emotion_vector writes the document
StoreEmotionPattern(student_id) ==
    /\ store_pc = "idle"
    /\ document_id(student_id, "c1", 1) \notin vector_db
    /\ vector_db' = vector_db \cup {document_id(student_id, "c1", 1)}
    /\ store_pc' = "stored"
    /\ UNCHANGED <<worker, invalidate_keys, computed_from, answered, redis, found_patterns, predicted_outcomes, patternVars, batchVars, analyzerVars, predictorVars, importVars, vectorCacheVars>>

\* keys = cache.redis.keys(key_pattern)
InvalidateKeys ==
    /\ store_pc = "stored"
    /\ invalidate_keys' = DOMAIN redis \ DOMAIN Invalidated(redis)
    /\ store_pc' = "keys"
    /\ UNCHANGED <<worker, computed_from, answered, patternVars, batchVars, analyzerVars, predictorVars, importVars, serviceVars, vectorCacheVars>>

\* redis.delete(*keys)
Deleted(store, keys) == [key \in DOMAIN store \ keys |-> store[key]]

\* if keys: cache.redis.delete(*keys); return result
InvalidateDelete ==
    /\ store_pc = "keys"
    /\ redis' = Deleted(redis, invalidate_keys)
    /\ computed_from' = Deleted(computed_from, invalidate_keys)
    /\ invalidate_keys' = {}
    /\ store_pc' = "idle"
    /\ UNCHANGED <<worker, answered, vector_db, found_patterns, predicted_outcomes, patternVars, batchVars, analyzerVars, predictorVars, importVars, vectorCacheVars>>

NextThreads ==
    \/ \E student_id \in StudentIds, similar_patterns \in SimilarPatterns :
           WorkerGet(student_id, similar_patterns)
    \/ WorkerCall
    \/ WorkerSet
    \/ \E student_id \in StudentIds : StoreEmotionPattern(student_id)
    \/ InvalidateKeys
    \/ InvalidateDelete

SpecThreads == Init /\ [][NextThreads]_vars

(***************************************************************************)
(* Properties of the pattern service.                                      *)
(***************************************************************************)
\* the places <<cluster, position>> of the returned clusters' member lists
MemberPlaces ==
    UNION { { <<c, k>> : k \in DOMAIN pattern_clusters[c].patterns } :
            c \in DOMAIN pattern_clusters }

\* C1: the member lists of the clusters _cluster_patterns returns together
\* hold every input item exactly once: each member is an input item, and each
\* input item stands at exactly one place of exactly one cluster
C1_ClustersPartitionInput ==
    cluster_pc = "done" =>
        /\ \A pl \in MemberPlaces :
               pattern_clusters[pl[1]].patterns[pl[2]] \in DOMAIN pattern_signatures
        /\ \A i \in DOMAIN pattern_signatures :
               Cardinality({ pl \in MemberPlaces :
                   pattern_clusters[pl[1]].patterns[pl[2]] = i }) = 1

\* a clustered list of MaxPatterns items, two of them equal, that fell into
\* two clusters, one of them with several members
C1_Witness ==
    /\ cluster_pc = "done"
    /\ Len(pattern_signatures) = MaxPatterns
    /\ \E i, j \in DOMAIN pattern_signatures :
           i # j /\ pattern_signatures[i] = pattern_signatures[j]
    /\ Len(pattern_clusters) = 2
    /\ \E c \in DOMAIN pattern_clusters : Len(pattern_clusters[c].patterns) > 1

\* C3: calculate_pattern_similarity(a, a) is exactly 1.0
C3_SelfSimilarityIsOne ==
    \A k \in DOMAIN sim :
        sim[k].pattern1 = sim[k].pattern2 => sim[k].similarity = One

\* C4: calculate_pattern_similarity(a, b) equals
\* calculate_pattern_similarity(b, a)
C4_SimilaritySymmetric ==
    \A k \in DOMAIN sim :
        sim[k].similarity =
            calculate_pattern_similarity(sim[k].pattern2, sim[k].pattern1)

\* a call on two profiles that differ in a level, in the hidden flag, in the
\* urgency and in the trajectory
C4_Witness ==
    \E k \in DOMAIN sim :
        /\ sim[k].pattern1.frustration_level # sim[k].pattern2.frustration_level
        /\ sim[k].pattern1.hidden_dissatisfaction_flag
        /\ ~sim[k].pattern2.hidden_dissatisfaction_flag
        /\ sim[k].pattern1.urgency_level # sim[k].pattern2.urgency_level
        /\ sim[k].pattern1.emotional_trajectory # sim[k].pattern2.emotional_trajectory
        /\ FLt(sim[k].similarity, Dec(7, 10))

(***************************************************************************)
(* Properties of the batch calls.                                          *)
(***************************************************************************)
\* the chunk of item i was answered by the except branch of process_batch:
\* one of its items raised a TimeoutError
ChunkTimedOut(i) ==
    /\ bp_entry = "process_batch"
    /\ \E j \in DOMAIN items :
           /\ (j - 1) \div BatchSize = (i - 1) \div BatchSize
           /\ Raises(process_func, items[j])
           /\ items[j].outcome = "raise_timeout"

\* C6: a batch call that returns gives a list as long as its input whose
\* element i is the result of processing input element i, whatever the order
\* in which the items finished and however the input was split into chunks
\* (the positions of a chunk answered with None values hold None)
C6_ResultsInInputOrder ==
    bp_pc = "returned" =>
        /\ Len(results) = Len(items)
        /\ \A i \in DOMAIN items :
               results[i] = IF ChunkTimedOut(i) THEN None
                            ELSE ResultOf(process_func, items[i])

\* a returned call on a list split into two chunks, whose second item
\* finished before its first, with different results
C6_Witness ==
    /\ bp_pc = "returned"
    /\ bp_entry = "process_batch"
    /\ Len(items) > BatchSize
    /\ tasks[2].nth < tasks[1].nth
    /\ results[1] # results[2]
    /\ \A i \in DOMAIN items : results[i] # None

\* C7: in process_batch, an item whose processing raises does not abort the
\* call: the call does not raise, and when it has returned every item that
\* was processed has its result at its position and every item that failed
\* is reported at its position as an error
C7_ItemFailureIsolated ==
    bp_entry = "process_batch" =>
        /\ bp_pc # "raised"
        /\ bp_pc = "returned" =>
               \A i \in DOMAIN items :
                   IF items[i].outcome = "ok"
                   THEN results[i] = ResultOf(process_func, items[i])
                   ELSE results[i] # None /\ ~results[i].processed

\* C8: in process_batch on items none of which raises, the call does not
\* wait for a chunk past its deadline (Timeout after the chunk was
\* submitted), and when it has returned the items finished by the deadline
\* have their results and exactly the others are None
C8_TimeoutDegradesGracefully ==
    (/\ bp_entry = "process_batch"
     /\ \A i \in DOMAIN items : items[i].outcome \in {"ok", "never"}) =>
        /\ bp_pc = "gather" => clock <= chunk_started + Timeout
        /\ bp_pc = "returned" =>
               \A i \in DOMAIN items :
                   results[i] = IF tasks[i].status = "done" /\ tasks[i].in_time
                                THEN ResultOf(process_func, items[i])
                                ELSE None

(***************************************************************************)
(* Properties of the emotion analyzer.                                     *)
(***************************************************************************)
\* the float fields of EmotionProfile
NumericFields ==
    {"frustration_level", "engagement_level", "confidence_level",
     "satisfaction_level", "emotional_temperature", "emotional_volatility",
     "hidden_dissatisfaction_confidence", "politeness_mask_level",
     "emotion_coherence", "sentiment_authenticity"}

InUnitInterval(x) == FGe(x, FZero) /\ FLe(x, One)

\* C2: for every text, aspect_scores and history, every numeric field of the
\* profile analyze_text returns lies in the closed interval [0,1].
C2_NumericFieldsInUnitInterval ==
    \A k \in 1..Len(analysis) :
        \A field \in NumericFields : InUnitInterval(analysis[k].profile[field])

\* the first explicit pattern with its literals in lower case: searched in
\* the lowered text it finds the statement in any letter case
ExplicitDistress(text) ==
    re_search([k \in 1..Len(explicit_patterns[1]) |->
                  {Lower(alt) : alt \in explicit_patterns[1][k]}],
              Lower(text))

\* C9: whenever the text contains an explicit first-person distress statement
\* "I'm / I am / feeling [very|really|extremely] frustrated|annoyed|upset", in
\* any letter case, analyze_text returns frustration_level >= 0.7.
C9_ExplicitOverride ==
    \A k \in 1..Len(analysis) :
        ExplicitDistress(analysis[k].text)
            => FGe(analysis[k].profile.frustration_level, Dec(7, 10))

\* C10: the text "The course is fine I guess, somewhat helpful, probably just
\* me" analysed without aspect scores is flagged as hidden dissatisfaction
\* with confidence >= 0.5.
C10_HedgedPraiseFlagged ==
    \A k \in 1..Len(analysis) :
        (/\ analysis[k].text
               = "The course is fine I guess, somewhat helpful, probably just me"
         /\ ~Truthy(analysis[k].aspect_scores))
            => /\ analysis[k].profile.hidden_dissatisfaction_flag
               /\ FGe(analysis[k].profile.hidden_dissatisfaction_confidence,
                      Dec(5, 10))

(***************************************************************************)
(* Properties of the trajectory predictor.                                 *)
(***************************************************************************)
Horizons == {"next_week", "two_week", "course_completion"}

PrimaryLevels ==
    {"frustration_level", "engagement_level", "confidence_level",
     "satisfaction_level"}

\* every primary level of the forecast is 0.5
IsDefaultForecast(forecast) ==
    \A level \in PrimaryLevels : QEq(forecast[level], QDec(5, 10))

\* the only intervention window is the routine check-in
OnlyRoutineCheckIn(windows) ==
    /\ DOMAIN windows = {"primary"}
    /\ windows.primary.type = "routine_check_in"
    /\ windows.primary.timing = "routine"

\* C5: for a history with fewer than 2 data points, predict_emotion_evolution
\* returns the fixed default forecast for every horizon (frustration,
\* engagement, confidence and satisfaction all 0.5) and the only intervention
\* window is the routine check-in.
C5_ShortHistoryDefaults ==
    (prediction # <<>> /\ Len(emotion_history.weeks) < 2)
        => /\ \A horizon \in Horizons :
                 IsDefaultForecast(prediction[1].emotion_predictions[horizon])
           /\ OnlyRoutineCheckIn(prediction[1].optimal_intervention_windows)

\* a prediction was returned for a history of one data point
C5_Witness == prediction # <<>> /\ Len(emotion_history.weeks) = 1

\* the history of scenario C: three entries, oldest first, with the
\* frustration levels 0.3, 0.5, 0.7
ScenarioC(historical_data) ==
    /\ Truthy(historical_data)
    /\ FrustrationLevels(historical_data.items)
           = <<Dec(3, 10), Dec(5, 10), Dec(7, 10)>>

\* the same history as the predictor takes it
ScenarioCHistory ==
    [weeks |-> <<1, 2, 3>>,
     frustration_levels |-> <<QDec(3, 10), QDec(5, 10), QDec(7, 10)>>,
     engagement_levels |-> <<QDec(5, 10), QDec(5, 10), QDec(5, 10)>>,
     confidence_levels |-> <<QDec(5, 10), QDec(5, 10), QDec(5, 10)>>,
     satisfaction_levels |-> <<QDec(5, 10), QDec(5, 10), QDec(5, 10)>>,
     hidden_dissatisfaction_flags |-> <<FALSE, FALSE, FALSE>>]

\* C11: for a history whose entries for weeks 1, 2, 3, oldest first, have
\* the frustration levels 0.3, 0.5, 0.7, analyze_text returns
\* frustration_trend = "increasing" and the predictor's next-week frustration
\* forecast is strictly greater than 0.7.
C11_ScenarioCIncreasing ==
    /\ \A k \in 1..Len(analysis) :
           ScenarioC(analysis[k].historical_data)
               => analysis[k].profile.frustration_trend = "increasing"
    /\ QGt(predict_next_week_emotions(ScenarioCHistory).frustration_level,
           QDec(7, 10))

(***************************************************************************)
(* Properties of the data importer.                                        *)
(***************************************************************************)
\* some aspect score of the row is a number outside 1..5
OffScale(row) ==
    \E column \in AspectColumns :
        /\ ~IsNone(IntOf(cleaned_row(row)[column]))
        /\ IsNone(IntField(cleaned_row(row)[column], 1, 5))

OnScale(row) == ~OffScale(row)

\* exactly one row has an aspect score off the scale and every other row is
\* a row CSVDataRow accepts
OneRowOffScale(rows) ==
    /\ Cardinality({k \in 1..Len(rows) : OffScale(rows[k])}) = 1
    /\ \A k \in 1..Len(rows) : OffScale(rows[k]) \/ Validates(cleaned_row(rows[k]))

\* the validated rows of the journeys, in the order of the journeys
JourneyRows(journeys) == [k \in 1..Len(journeys) |-> journeys[k].row]

\* the validated rows of the given rows, in the order of the rows
ValidatedRows(rows) == [k \in 1..Len(rows) |-> CSVDataRow(cleaned_row(rows[k]))]

\* C12: when exactly one row of the batch, in any position, has an aspect
\* score outside 1..5, the import returns the journeys of all the other rows
\* in their original relative order, records exactly one error, and
\* valid_rows + invalid_rows is the number of rows processed.
C12_OneBadRowIsolated ==
    (import_pc = "returned" /\ OneRowOffScale(raw_data))
        => /\ JourneyRows(student_journeys)
                  = ValidatedRows(SelectSeq(raw_data, OnScale))
           /\ Len(validation_errors) = 1
           /\ Len(quality_metrics[1].validation_errors) = 1
           /\ valid_rows + invalid_rows = Len(raw_data)
           /\ quality_metrics[1].valid_rows + quality_metrics[1].invalid_rows
                  = quality_metrics[1].total_rows

\* an import has returned for three rows of which the second is off the scale
C12_Witness ==
    /\ import_pc = "returned"
    /\ Len(raw_data) = 3
    /\ OneRowOffScale(raw_data)
    /\ OffScale(raw_data[2])
    /\ Len(student_journeys) = 2

(***************************************************************************)
(* Further properties of the pattern service.                              *)
(***************************************************************************)
\* the two profiles are identical but for frustration_type, "technical" in
\* one and "content" in the other
DifferInFrustrationType(pattern1, pattern2) ==
    /\ {pattern1.frustration_type, pattern2.frustration_type}
           = {"technical", "content"}
    /\ [pattern1 EXCEPT !.frustration_type = pattern2.frustration_type] = pattern2

\* C13: for two profiles identical in every field except frustration_type
\* ("technical" in one, "content" in the other), calculate_pattern_similarity
\* returns a value strictly less than 1.0 and strictly greater than 0.8.
C13_FrustrationTypeLowersSimilarity ==
    \A k \in DOMAIN sim :
        DifferInFrustrationType(sim[k].pattern1, sim[k].pattern2)
            => /\ FLt(sim[k].similarity, One)
               /\ FGt(sim[k].similarity, Dec(8, 10))

\* the list fields of EmotionProfile
ListFields ==
    {"urgency_signals", "hidden_signals", "dropout_risk_emotions",
     "positive_recovery_indicators", "emotional_triggers"}

\* the text has no character but blanks
IsBlank(text) == Strip(text) = ""

\* a call with a blank text, without aspect scores and without history
BlankCall(call) ==
    /\ IsBlank(call.text)
    /\ ~Truthy(call.aspect_scores)
    /\ ~Truthy(call.historical_data)

\* the profile's categorical fields have their neutral values
NeutralCategories(profile) ==
    /\ profile.frustration_type = "mixed"
    /\ profile.frustration_trend = "stable"
    /\ profile.urgency_level = "low"
    /\ profile.emotional_trajectory = "neutral"
    /\ profile.emotional_complexity = "simple"

\* C14: for empty or whitespace-only text, without aspect scores and without
\* history, analyze_text returns a profile whose four primary levels are the
\* default 0.5, whose list fields are all empty, whose hidden dissatisfaction
\* flag is false and whose categorical fields have their neutral values.
C14_BlankTextDefaults ==
    \A k \in 1..Len(analysis) :
        BlankCall(analysis[k]) =>
            /\ \A level \in PrimaryLevels :
                   analysis[k].profile[level] = Dec(5, 10)
            /\ \A field \in ListFields : analysis[k].profile[field] = <<>>
            /\ ~analysis[k].profile.hidden_dissatisfaction_flag
            /\ NeutralCategories(analysis[k].profile)

\* no tag is at two places of the list
NoDuplicates(tags) ==
    \A i, j \in DOMAIN tags : i # j => tags[i] # tags[j]

\* C15: in every profile analyze_text returns, no list field (urgency_signals,
\* hidden_signals, dropout_risk_emotions, positive_recovery_indicators,
\* emotional_triggers) contains the same tag twice, whichever combination of
\* patterns and phrases matches the text.
C15_NoDuplicateTags ==
    \A k \in 1..Len(analysis) :
        \A field \in ListFields : NoDuplicates(analysis[k].profile[field])

\* the aspect score is on the 1-5 scale
WellFormedEntry(entry) == entry.value \in 1..5

\* the dict has a score off the 1-5 scale
HasMalformedScore(aspect_scores) ==
    /\ Truthy(aspect_scores)
    /\ \E k \in DOMAIN aspect_scores.items :
           ~WellFormedEntry(aspect_scores.items[k])

\* the dict with the keys of the malformed scores removed
WithoutMalformed(aspect_scores) ==
    List(SelectSeq(aspect_scores.items, WellFormedEntry))

\* C16: a malformed aspect score is ignored for its key: when aspect_scores
\* has a value outside 1..5 for some key, analyze_text returns the
\* satisfaction_level it returns for the same text with that key removed
\* from aspect_scores.
C16_MalformedScoreIgnored ==
    \A k \in 1..Len(analysis) :
        HasMalformedScore(analysis[k].aspect_scores) =>
            analysis[k].profile.satisfaction_level
                = calculate_satisfaction_level(
                      Lower(analysis[k].text),
                      WithoutMalformed(analysis[k].aspect_scores))

(***************************************************************************)
(* Further properties of the trajectory predictor.                         *)
(***************************************************************************)
\* the places of the history's entries in the order of their weeks
WeekOrder(weeks) ==
    [k \in 1..Len(weeks) |->
        CHOOSE i \in 1..Len(weeks) :
            Cardinality({j \in 1..Len(weeks) : weeks[j] < weeks[i]}) = k - 1]

Reordered(list, order) == [k \in 1..Len(order) |-> list[order[k]]]

\* the same entries, each week with its values and its flag, in the order
\* of the weeks
ReorderedHistory(h, order) ==
    [weeks |-> Reordered(h.weeks, order),
     frustration_levels |-> Reordered(h.frustration_levels, order),
     engagement_levels |-> Reordered(h.engagement_levels, order),
     confidence_levels |-> Reordered(h.confidence_levels, order),
     satisfaction_levels |-> Reordered(h.satisfaction_levels, order),
     hidden_dissatisfaction_flags |->
         Reordered(h.hidden_dissatisfaction_flags, order)]

WeekSorted(h) == ReorderedHistory(h, WeekOrder(h.weeks))

\* the risk escalations predict_emotion_evolution can return for the history
RiskEscalationsOf(h) ==
    {RiskEscalations(frustration_trajectory, engagement_decay,
                     predict_hidden_dissatisfaction(h)) :
        frustration_trajectory \in model_frustration_curve(h),
        engagement_decay \in predict_engagement_decline(h)}

\* C17: for a history given in any order of its entries,
\* predict_emotion_evolution returns the emotion forecasts and the risk
\* escalations it returns for the week-sorted history.
C17_OrderIndependent ==
    prediction # <<>> =>
        /\ prediction[1].emotion_predictions
               = EmotionPredictions(WeekSorted(emotion_history))
        /\ prediction[1].risk_escalations
               \in RiskEscalationsOf(WeekSorted(emotion_history))

(***************************************************************************)
(* The history is the caller's: the analyzer and the predictor as one      *)
(* caller uses them, analyze_text on its list of entries and               *)
(* predict_emotion_evolution on its StudentEmotionHistory.                 *)
(***************************************************************************)
\* the journeys the caller adds to its StudentEmotionHistory
CallerPoints ==
    {DataPoint(1, 4, 3, 6, 8, TRUE), DataPoint(2, 7, 6, 2, 9, TRUE),
     DataPoint(4, 1, 1, 5, 9, FALSE)}

NextCaller ==
    \/ \E historical_data \in Histories : AnalyzeText("", None, historical_data)
    \/ \E point \in CallerPoints : AppendDataPoint(point)
    \/ PredictEmotionEvolution

SpecCaller == Init /\ [][NextCaller]_vars

\* the entries are not in the order of their timestamps
UnsortedEntries(historical_data) ==
    /\ Truthy(historical_data)
    /\ \E i, j \in DOMAIN historical_data.items :
           /\ i < j
           /\ Get(historical_data.items[i], "timestamp", 0)
                  > Get(historical_data.items[j], "timestamp", 0)

\* the weeks are not in ascending order
UnsortedWeeks(weeks) == \E i, j \in DOMAIN weeks : i < j /\ weeks[i] > weeks[j]

\* a call of analyze_text leaves the caller's list as it was given
AnalysisKeepsHistory ==
    analysis' # analysis =>
        analysis'[1].caller_history = analysis'[1].historical_data

\* a call of predict_emotion_evolution leaves the caller's history as it was
PredictionKeepsHistory ==
    prediction' # prediction => emotion_history' = emotion_history

\* C18: neither analyze_text nor predict_emotion_evolution changes the
\* history it is given: after the call the caller's history (its length, the
\* order of its entries and every field of every entry) is what it was
\* before the call, also when the history is unsorted.
C18_HistoryNotMutated ==
    [][AnalysisKeepsHistory /\ PredictionKeepsHistory]_vars

\* both calls have returned, each on an unsorted history
C18_Witness ==
    /\ analysis # <<>>
    /\ UnsortedEntries(analysis[1].historical_data)
    /\ analysis[1].caller_history = analysis[1].historical_data
    /\ prediction # <<>>
    /\ UnsortedWeeks(emotion_history.weeks)

(***************************************************************************)
(* Properties of the pattern cache.                                        *)
(***************************************************************************)
\* C19: the result cache is a pure optimisation: for the same arguments and
\* unchanged stored data, a call of find_emotion_patterns answered from the
\* cache returns a value equal (same type, same fields, same pattern
\* matches) to the one the uncached computation returns.
C19_CacheIsTransparent ==
    \A k \in 1..Len(found_patterns) :
        found_patterns[k].returned
            = find_emotion_patterns(found_patterns[k].stored_data,
                                    found_patterns[k].student_id,
                                    found_patterns[k].course_id,
                                    found_patterns[k].week_number)

(***************************************************************************)
(* Properties of the outcome prediction.                                   *)
(***************************************************************************)
\* every cluster weight member_count x avg_similarity is 0
AllWeightsZero(clusters) ==
    \A c \in 1..Len(clusters) : cluster_weight(clusters[c]) = FZero

C20_WeightedDropout ==
    \E k \in 1..Len(predicted_outcomes) :
        /\ Len(predicted_outcomes[k].pattern_clusters) = 1
        /\ Len(predicted_outcomes[k].pattern_clusters[1].patterns) = 2
        /\ FGt(cluster_weight(predicted_outcomes[k].pattern_clusters[1]), One)
        /\ predicted_outcomes[k].outcomes.dropout_risk = One

C21_OneInterventionPerType ==
    \A k \in 1..Len(predicted_outcomes) :
        Len(predicted_outcomes[k].pattern_clusters) > 0 =>
            \A i, j \in 1..Len(predicted_outcomes[k].outcomes.recommended_interventions) :
                i # j =>
                    predicted_outcomes[k].outcomes.recommended_interventions[i].type
                        # predicted_outcomes[k].outcomes.recommended_interventions[j].type

\* the candidate interventions of the risk escalations, before the sort
Candidates(risk_escalations) ==
    FrustrationInterventions(risk_escalations.frustration_boiling_point)
    \o EngagementInterventions(risk_escalations.engagement_dropout_risk)
    \o DissatisfactionInterventions(risk_escalations.hidden_to_open_dissatisfaction)

\* x and y have the same urgency rank and x has fewer days
SoonerAtSameUrgency(x, y) ==
    /\ urgency_rank(x.urgency) = urgency_rank(y.urgency)
    /\ x.days < y.days

\* no candidate of the list has the urgency of the window and fewer days
NoneSoonerThan(candidates, window) ==
    \A i, j \in 1..Len(candidates) :
        SoonerAtSameUrgency(candidates[i], candidates[j])
            => window # WindowOf(candidates[j])

\* C22: whenever two candidate interventions have the same urgency rank,
\* find_intervention_windows places the one with fewer days_from_now first:
\* the primary window is never a candidate with more days than another
\* candidate of equal urgency.
C22_FewerDaysFirst ==
    \A k \in 1..Len(prediction) :
        NoneSoonerThan(Candidates(prediction[k].risk_escalations),
                       prediction[k].optimal_intervention_windows.primary)

\* some risk type reports a day estimate
SomeDayEstimate(risk_escalations) ==
    \/ ~IsNone(risk_escalations.frustration_boiling_point.days_to_threshold)
    \/ ~IsNone(risk_escalations.engagement_dropout_risk.days_to_intervention)
    \/ ~IsNone(risk_escalations.hidden_to_open_dissatisfaction.days_to_explosion)

\* C23: find_intervention_windows always returns a primary window, and the
\* primary is the routine 14-day check-in (type routine_check_in, confidence
\* 0.5) exactly when none of the three risk types produced a day estimate.
C23_RoutineOnlyWithoutEstimate ==
    \A k \in 1..Len(prediction) :
        /\ "primary" \in DOMAIN prediction[k].optimal_intervention_windows
        /\ (prediction[k].optimal_intervention_windows.primary
                = Window("routine_check_in", "routine", 14, QDec(5, 10)))
           <=> ~SomeDayEstimate(prediction[k].risk_escalations)

\* the forecast of the straight line through the points of a history,
\* evaluated at target_week and clamped to [0, 1]
LineForecast(history, target_week) ==
    EmotionPrediction(
        Clip01(poly(polyfit1(history.weeks, history.frustration_levels), QInt(target_week))),
        Clip01(poly(polyfit1(history.weeks, history.engagement_levels), QInt(target_week))),
        Clip01(poly(polyfit1(history.weeks, history.confidence_levels), QInt(target_week))),
        Clip01(poly(polyfit1(history.weeks, history.satisfaction_levels), QInt(target_week))))

\* two forecasts agree on the four primary levels
SameLevels(forecast, expected) ==
    \A level \in PrimaryLevels : QEq(forecast[level], expected[level])

\* C24: for a history of exactly 2 points, the next-week, two-weeks-ahead and
\* course-completion (week 12) forecasts of each of the four dimensions equal
\* the straight line through the two points evaluated at latest+1, latest+2
\* and 12, clamped to [0, 1]; the 0.5 default is only for fewer than 2 points.
C24_TwoPointsFitted ==
    (prediction # <<>> /\ Len(emotion_history.weeks) = 2)
        => /\ SameLevels(prediction[1].emotion_predictions.next_week,
                         LineForecast(emotion_history, MaxWeek(emotion_history.weeks) + 1))
           /\ SameLevels(prediction[1].emotion_predictions.two_week,
                         LineForecast(emotion_history, MaxWeek(emotion_history.weeks) + 2))
           /\ SameLevels(prediction[1].emotion_predictions.course_completion,
                         LineForecast(emotion_history, 12))

\* the part of C24 about the next week alone
NextWeekFromLine ==
    (prediction # <<>> /\ Len(emotion_history.weeks) = 2)
        => SameLevels(prediction[1].emotion_predictions.next_week,
                      LineForecast(emotion_history, MaxWeek(emotion_history.weeks) + 1))

\* f[n-3] < f[n-2] < f[n-1] over the last three values
StrictlyIncreasing(recent) ==
    QLt(recent[1], recent[2]) /\ QLt(recent[2], recent[3])

\* C25: in the hidden-dissatisfaction explosion rule (3 or more points),
\* frustration counts as increasing only when the last three frustration
\* values are strictly increasing; a non-monotone triple does not count as
\* increasing and therefore cannot produce the medium or the high tier.
C25_NonMonotoneNotEscalated ==
    (/\ prediction # <<>>
     /\ Len(emotion_history.weeks) >= 3
     /\ ~StrictlyIncreasing(Last3(emotion_history.frustration_levels)))
        => prediction[1].risk_escalations.hidden_to_open_dissatisfaction.risk
               \notin {"medium", "high"}

\* b^2 - 4*a*(c - threshold) of the fitted quadratic
Discriminant(coeffs, threshold) ==
    QSub(QMul(coeffs[2], coeffs[2]),
         QMul(QMul(QInt(4), coeffs[1]), QSub(coeffs[3], threshold)))

\* the fitted quadratic equals the threshold at some point strictly after
\* current_week
HasFutureRoot(coeffs, threshold, current_week) ==
    /\ QSign(Discriminant(coeffs, threshold)) >= 0
    /\ ~IsNone(MinFutureRoot(Root(coeffs[1], coeffs[2], Discriminant(coeffs, threshold), FALSE),
                             Root(coeffs[1], coeffs[2], Discriminant(coeffs, threshold), TRUE),
                             current_week))

\* the quadratic fitted to the frustration levels of the history
FrustrationCoeffs == polyfit2(emotion_history.weeks, emotion_history.frustration_levels)

\* a prediction was made for a history of 3 or more points whose fitted
\* frustration curve is a proper quadratic
QuadraticFitted ==
    /\ prediction # <<>>
    /\ Len(emotion_history.weeks) >= 3
    /\ QSign(FrustrationCoeffs[1]) # 0

\* C26: for a history of 3 or more points, model_frustration_curve reports a
\* days_to_threshold exactly when the fitted quadratic equals 0.8 at some
\* point strictly after the latest observed week, however many weeks ahead
\* that crossing lies; the value is never negative, and it is None when
\* there is no real root or no root after the latest week.
C26_ThresholdIffFutureRoot ==
    QuadraticFitted
        => /\ ~IsNone(prediction[1].risk_escalations.frustration_boiling_point.days_to_threshold)
              <=> HasFutureRoot(FrustrationCoeffs, QDec(8, 10), MaxWeek(emotion_history.weeks))
           /\ ~IsNone(prediction[1].risk_escalations.frustration_boiling_point.days_to_threshold)
              => prediction[1].risk_escalations.frustration_boiling_point.days_to_threshold.some >= 0

\* the part of C26 that holds: a reported days_to_threshold is the whole
\* days to a future root and is never negative
ReportedThresholdIsFutureRoot ==
    (/\ QuadraticFitted
     /\ ~IsNone(prediction[1].risk_escalations.frustration_boiling_point.days_to_threshold))
        => /\ HasFutureRoot(FrustrationCoeffs, QDec(8, 10), MaxWeek(emotion_history.weeks))
           /\ prediction[1].risk_escalations.frustration_boiling_point.days_to_threshold.some >= 0

\* field i of two signatures is close: the eight numeric fields (six levels,
\* hidden flag, urgency rank) within 0.2, the two categorical fields
\* (frustration-type code, trajectory code) equal
FieldClose(sig1, sig2, i) ==
    IF i <= 8
    THEN FLe(FAbs(FSub(ParseFloat(sig1[i]), ParseFloat(sig2[i]))), Dec(2, 10))
    ELSE sig1[i] = sig2[i]

\* the number of close fields of two signatures
CloseFields(sig1, sig2) ==
    Cardinality({i \in 1..Len(sig1) : FieldClose(sig1, sig2, i)})

\* C27: two signatures produced by generate_pattern_signature are judged
\* similar by _are_signatures_similar exactly when at least 7 of their 10
\* fields are close (numeric fields within 0.2, categorical fields equal):
\* a later signature joins the cluster opened by the first signature exactly
\* when 7 of its fields are close to the first one's.
C27_SimilarIffSevenClose ==
    cluster_pc = "done" =>
        \A j \in 2..Len(pattern_signatures) :
            (\E k \in DOMAIN pattern_clusters[1].patterns :
                 pattern_clusters[1].patterns[k] = j)
            <=> CloseFields(pattern_signatures[1].signature,
                            pattern_signatures[j].signature) >= 7

\* the part of C27 that holds: a signature that joined the first cluster has
\* at least 7 fields close to the first signature's
JoinedHaveSevenClose ==
    cluster_pc = "done" =>
        \A j \in 2..Len(pattern_signatures) :
            (\E k \in DOMAIN pattern_clusters[1].patterns :
                 pattern_clusters[1].patterns[k] = j)
            => CloseFields(pattern_signatures[1].signature,
                           pattern_signatures[j].signature) >= 7

\* the hits of the categories other than category k
OtherHits(matches, k) == SumInts(matches, 1) - matches[k]

\* category k has hits, more than 1.5 times those of the other categories
Dominates(matches, k) ==
    matches[k] > 0 /\ 2 * matches[k] > 3 * OtherHits(matches, k)

\* C28: for every combination of keyword-hit counts of the four frustration
\* categories, _determine_frustration_type returns the category with the
\* most hits when its hit count is more than 1.5 times the combined hit count
\* of the other categories, and "mixed" otherwise; it never returns a
\* category with zero hits.
C28_DominantOrMixed ==
    \A c \in DOMAIN frustration_call :
        /\ \A k \in 1..Len(frustration_words) :
               Dominates(frustration_call[c].matches, k)
                   => frustration_call[c].frustration_type = frustration_words[k].key
        /\ (\A k \in 1..Len(frustration_words) :
                ~Dominates(frustration_call[c].matches, k))
               => frustration_call[c].frustration_type = "mixed"
        /\ \A k \in 1..Len(frustration_words) :
               frustration_call[c].frustration_type = frustration_words[k].key
                   => frustration_call[c].matches[k] > 0

\* the part of C28 that holds: a category is returned only if it has hits,
\* and no hits at all or a tie for the most hits gives "mixed"
ReturnedTypeHasHits ==
    \A c \in DOMAIN frustration_call :
        /\ \A k \in 1..Len(frustration_words) :
               frustration_call[c].frustration_type = frustration_words[k].key
                   => frustration_call[c].matches[k] > 0
        /\ (\E j, k \in 1..Len(frustration_words) :
                /\ j # k
                /\ frustration_call[c].matches[j] = frustration_call[c].matches[k]
                /\ \A i \in 1..Len(frustration_words) :
                       frustration_call[c].matches[i] <= frustration_call[c].matches[k])
               => frustration_call[c].frustration_type = "mixed"

(***************************************************************************)
(* Properties of the vector cache.                                         *)
(***************************************************************************)
\* C30: the vector cache is bounded: after any sequence of store, get and
\* invalidate calls the number of cached embeddings (document embeddings plus
\* query embeddings) is at most max_cache_size, and every cached embedding
\* (document or query) still has a last_accessed entry.
C30_CacheBounded ==
    /\ Cardinality(document_embeddings) + Cardinality(query_embeddings) <= max_cache_size
    /\ \A key \in document_embeddings \cup query_embeddings :
           HasAccess(last_accessed, key)

\* the first half of C30 alone
EmbeddingsWithinSize ==
    Cardinality(document_embeddings) + Cardinality(query_embeddings) <= max_cache_size

\* the second half of C30 for the document embeddings, for which it holds
DocumentsHaveAccessTime ==
    \A key \in document_embeddings : HasAccess(last_accessed, key)

(***************************************************************************)
(* Properties of the pattern cache under concurrent calls.                 *)
(***************************************************************************)
\* C29: no stale pattern result survives a store: once a store call has
\* returned, no later find_emotion_patterns call is answered from a cache
\* entry that was computed from vector-store contents older than that store.
\* A call answered from the cache while no store is under way is answered
\* from an entry computed from the stored data as they are.
C29_NoStaleEntryAfterStore ==
    \A k \in 1..Len(answered) :
        (answered[k].from_cache /\ ~answered[k].storing)
            => answered[k].computed_from = answered[k].stored_data

=============================================================================
